---------------------------- MODULE Spec2Model ----------------------------
(***************************************************************************)
(* A model of the flow layouter of crates/typst/src/layout/flow.rs.       *)
(*                                                                         *)
(* Lengths (Abs) are integers; only the vertical axis is modelled.  The    *)
(* layouter's fields are the variables below.  A handler of the layouter   *)
(* is an operator from a layouter record to a layouter record, translated  *)
(* statement by statement; one action applies one handler to one child of  *)
(* the flow.  Inline layout, block layout, placed layout and the layout of *)
(* a footnote entry are collaborators: their results are inputs.           *)
(***************************************************************************)
EXTENDS Integers, Sequences, FiniteSets, TLC

(* ------------------------------ bounds --------------------------------- *)

\* Number of children of the flow.
MaxChildren == 2

\* Largest height of a region.
MaxRegion == 5

\* Largest number of lines of a paragraph.
MaxLines == 3

\* Height of a block that fills the smaller region; blocks, placed frames
\* and spacings are of height 1, MaxH or MaxH + 1.
MaxH == 3

\* Commits one handler may take before it is taken to loop forever.
MaxCommits == 6

\* Style values of the footnote entry (FootnoteConfig).
FootnoteGap == 1
FootnoteClearance == 1
SeparatorHeight == 0

\* Regions.last = None.
NoneH == -1

(* ------------------------------ lengths -------------------------------- *)

\* Abs::fits: self + EPS >= other.
Fits(a, b) == a >= b

\* Abs::inf(), and Abs::is_finite.
Inf == 1000
IsFinite(a) == a < Inf

\* a - v on lengths: an infinite length stays infinite.
Sub(a, v) == IF IsFinite(a) THEN a - v ELSE a

Max(a, b) == IF a >= b THEN a ELSE b
Min(a, b) == IF a <= b THEN a ELSE b

Last(seq) == seq[Len(seq)]
Front(seq) == SubSeq(seq, 1, Len(seq) - 1)

(* ------------------------------ regions -------------------------------- *)

\* Regions::in_last.
InLast(rg) ==
    /\ rg.backlog = <<>>
    /\ (rg.last = NoneH \/ rg.size = rg.last)

\* Regions::is_full.
IsFull(rg) == Fits(0, rg.size) /\ ~InLast(rg)

\* Regions::next.
RegionsNext(rg) ==
    IF rg.backlog # <<>>
    THEN [rg EXCEPT !.size = Head(rg.backlog), !.full = Head(rg.backlog),
                    !.backlog = Tail(rg.backlog)]
    ELSE IF rg.last # NoneH
         THEN [rg EXCEPT !.size = rg.last, !.full = rg.last]
         ELSE rg

\* regions.iter().nth(1): the height of the region after the current one,
\* NoneH when there is none.
NextRegionHeight(rg) ==
    IF rg.backlog # <<>> THEN Head(rg.backlog) ELSE rg.last

\* The test of handle_colbreak: a further region is available.
HasNextRegion(rg) == rg.backlog # <<>> \/ rg.last # NoneH

(* ------------------------------- items --------------------------------- *)

\* A FlowItem.  k is the variant; the other fields are those of the variant
\* (the rest stay at their blank value).  A frame's content is "text" (it has
\* items other than links and tags), "meta" (only links and tags) or "none"
\* (no items); notes are the footnote elements tagged in the frame.
Blank ==
    [k |-> "abs", h |-> 0, weak |-> FALSE, fr |-> 0, id |-> <<>>,
     content |-> "none", notes |-> <<>>, tags |-> <<>>, align |-> "start",
     sticky |-> FALSE, movable |-> FALSE, float |-> FALSE, y_align |-> "auto",
     clearance |-> 0, at |-> <<>>]

Absolute(v, weak) == [Blank EXCEPT !.k = "abs", !.h = v, !.weak = weak]

Fractional(f) == [Blank EXCEPT !.k = "fr", !.fr = f]

FrameItem(id, h, content, notes, align, sticky, movable) ==
    [Blank EXCEPT !.k = "frame", !.id = id, !.h = h, !.content = content,
                  !.notes = notes, !.align = align, !.sticky = sticky,
                  !.movable = movable]

Placed(id, h, notes, y_align, float, clearance) ==
    [Blank EXCEPT !.k = "placed", !.id = id, !.h = h, !.content = "text",
                  !.notes = notes, !.y_align = y_align, !.float = float,
                  !.clearance = clearance]

Footnote(id, h, content, notes) ==
    [Blank EXCEPT !.k = "footnote", !.id = id, !.h = h, !.content = content,
                  !.notes = notes]

\* Frame::is_empty.
IsEmpty(frame) == frame.content = "none"

\* FlowItem::is_out_of_flow.  (A frame of zero height is taken to be of zero
\* width as well.)
IsOutOfFlow(item) ==
    CASE item.k = "placed" -> ~item.float
      [] item.k = "frame" -> item.h = 0 /\ item.content # "text"
      [] OTHER -> FALSE

AllOutOfFlow(its) == \A i \in 1..Len(its) : IsOutOfFlow(its[i])

\* items.iter().any(|item| matches!(item, FlowItem::Frame { .. })).
AnyFrame(its) == \E i \in 1..Len(its) : its[i].k = "frame"

(* ------------------------------ layouter ------------------------------- *)

\* The handlers call one another, directly and in loops.  Every such call
\* goes through Call, which names the callee ("finish_region",
\* "handle_item", ...).  A callee returns the layouter; what the function
\* returns besides is its field ret.
RECURSIVE Call(_, _, _)

\* self.finish_region(force)?
DoFinishRegion(s, force) == Call("finish_region", s, [force |-> force])

\* self.handle_item(item)?
DoHandleItem(s, item) == Call("handle_item", s, [item |-> item])

\* self.handle_footnotes(&mut notes, movable, force)?: ret.ok is the flag
\* returned, ret.notes the caller's notes after the call.
DoHandleFootnotes(s, notes, movable, force) ==
    Call("handle_footnotes", s,
         [notes |-> notes, movable |-> movable, force |-> force])

\* self.try_handle_footnotes(notes)?
DoTryHandleFootnotes(s, notes) ==
    Call("try_handle_footnotes", s, [notes |-> notes])

\* Ok(()) so far: no handler has failed (or was cut off as looping).
Ok(s) == s.err = ""

\* self.items.push(item).
Push(s, item) == [s EXCEPT !.items = Append(@, item)]

\* History: the frame is handed to handle_item by handle_par or handle_block,
\* in a region that is the last (in_last) or not, after `before` commits.
Emit(s, frame, movable) ==
    [s EXCEPT !.emitted =
        Append(@, [id |-> frame.id, notes |-> frame.notes,
                   in_flow |-> ~IsOutOfFlow(frame), movable |-> movable,
                   in_last |-> InLast(s.regions), before |-> Len(s.finished),
                   commits |-> 0, kept |-> FALSE, err |-> "",
                   line |-> <<>>])]

\* History: handle_item has returned for the frame handed over last: the
\* regions it committed, whether the frame is among the items, its failure.
Land(s) ==
    LET e == Last(s.emitted)
    IN [s EXCEPT !.emitted[Len(s.emitted)] =
           [e EXCEPT !.commits = Len(s.finished) - e.before,
                     !.kept =
                         IF Len(s.finished) > e.before
                         THEN \E i \in 1..Len(s.finished[e.before + 1].items) :
                                 LET it == s.finished[e.before + 1].items[i].item
                                 IN it.k = "frame" /\ it.id = e.id
                         ELSE \E i \in 1..Len(s.items) :
                                 s.items[i].k = "frame" /\ s.items[i].id = e.id,
                     !.err = s.err]]

\* self.regions.size.y -= v.
Shrink(s, v) == [s EXCEPT !.regions.size = Sub(@, v)]

\* The three statements that end a commit: finished.push(output),
\* regions.next(), initial = regions.size.  `meta` is what the model records
\* about the region next to its frame.
AdvanceRegion(s, output, meta) ==
    LET rg == RegionsNext(s.regions)
    IN [s EXCEPT !.finished = Append(@, output),
                 !.log = Append(@, meta),
                 !.regions = rg,
                 !.initial = rg.size,
                 !.advanced = @ + 1]

\* in_last() as it was when the current region was entered: no further
\* region differs from it.
WasLast(s) == InLast([s.regions EXCEPT !.size = s.initial])

\* What the model records about a committed region; `before` and `after`
\* are filled in where finish_region returns, `migration` where
\* finish_region_with_migration does.
RegionMeta(s, force, fast, used) ==
    [initial |-> s.initial, used |-> used, force |-> force, fast |-> fast,
     more |-> HasNextRegion(s.regions), in_last |-> WasLast(s),
     has_footnotes |-> s.has_footnotes, before |-> <<>>, after |-> <<>>,
     migration |-> <<>>]

\* What a call of finish_region finds and leaves of the layouter.
View(s) ==
    [items |-> s.items, pending_floats |-> s.pending_floats,
     pending_tags |-> s.pending_tags, has_footnotes |-> s.has_footnotes,
     regions |-> s.regions, initial |-> s.initial,
     finished |-> Len(s.finished)]

\* History: finish_region, called on `s`, has returned `r`.
NoteCommit(s, r) ==
    IF Ok(r) /\ Len(r.log) > Len(s.log)
    THEN [r EXCEPT !.log[Len(s.log) + 1].before = View(s),
                   !.log[Len(s.log) + 1].after = View(r)]
    ELSE r

\* A fast path that emits the frame and stays in the region.
FastPathStays(s) ==
    [s EXCEPT !.finished = Append(@, [size |-> s.initial, fast |-> TRUE,
                                      items |-> <<>>]),
              !.log = Append(@, RegionMeta(s, FALSE, TRUE, 0))]

\* The early return, were it to drop the items.
FastPathClearing(s) ==
    AdvanceRegion([s EXCEPT !.items = <<>>],
                  [size |-> s.initial, fast |-> TRUE, items |-> <<>>],
                  RegionMeta(s, FALSE, TRUE, 0))

\* finish_region, the early return: all items are out-of-flow.
FastPath(s) ==
    AdvanceRegion(s, [size |-> s.initial, fast |-> TRUE, items |-> <<>>],
                  RegionMeta(s, FALSE, TRUE, 0))

\* finish_region, "Trim weak spacing".
RECURSIVE TrimWeak(_)
TrimWeak(its) ==
    IF its # <<>> /\ Last(its).k = "abs" /\ Last(its).weak
    THEN TrimWeak(Front(its))
    ELSE its

\* finish_region, "Determine the used size": the sums over the items.
RECURSIVE SumItems(_, _, _)
SumItems(its, i, acc) ==
    IF i > Len(its) THEN acc
    ELSE LET it == its[i]
             nxt ==
               CASE it.k = "abs" -> [acc EXCEPT !.used = @ + it.h]
                 [] it.k = "fr" -> [acc EXCEPT !.fr = @ + it.fr]
                 [] it.k = "frame" -> [acc EXCEPT !.used = @ + it.h]
                 [] it.k = "placed" /\ ~it.float -> acc
                 [] it.k = "placed" /\ it.float /\ it.y_align = "start" ->
                      [acc EXCEPT !.float_top = @ + it.h]
                 [] it.k = "placed" /\ it.float /\ it.y_align = "end" ->
                      [acc EXCEPT !.float_bottom = @ + it.h]
                 [] it.k = "footnote" ->
                      [acc EXCEPT !.footnote = @ + it.h
                                     + (IF acc.first THEN 0 ELSE FootnoteGap),
                                  !.first = FALSE]
                 [] OTHER -> acc
         IN SumItems(its, i + 1, nxt)

Sums(its) ==
    LET a == SumItems(its, 1, [used |-> 0, fr |-> 0, footnote |-> 0,
                               float_top |-> 0, float_bottom |-> 0,
                               first |-> TRUE])
    IN [a EXCEPT !.used = @ + a.footnote + a.float_top + a.float_bottom]

\* The size without the case of the footnotes.
CommitSizeByFraction(s, sums) ==
    IF sums.fr > 0 /\ IsFinite(s.initial)
    THEN s.initial
    ELSE Min(IF s.expand.y THEN s.initial ELSE sums.used, s.initial)

\* finish_region, "Determine the size of the flow in this region".
CommitSize(s, sums) ==
    IF (sums.fr > 0 \/ s.has_footnotes) /\ IsFinite(s.initial)
    THEN s.initial
    ELSE Min(IF s.expand.y THEN s.initial ELSE sums.used, s.initial)

\* FixedAlignment::position.
AlignRank(a) == CASE a = "start" -> 0 [] a = "center" -> 1 [] OTHER -> 2
AlignMax(a, b) == IF AlignRank(a) >= AlignRank(b) THEN a ELSE b
Position(a, free) ==
    CASE a = "start" -> 0 [] a = "center" -> free \div 2 [] OTHER -> free

\* Fr::share.
Share(v, total, remaining) ==
    IF IsFinite(remaining) THEN Max((v * remaining) \div total, 0) ELSE 0

\* finish_region, "Place all frames": the items drained in order, each with
\* the vertical position it is pushed at.
RECURSIVE PlaceItems(_, _, _, _, _, _)
PlaceItems(its, i, c, sums, size, initial) ==
    IF i > Len(its) THEN c
    ELSE LET it == its[i]
             free == size - sums.used
             nxt ==
               CASE it.k = "abs" -> [c EXCEPT !.offset = @ + it.h]
                 [] it.k = "fr" ->
                      [c EXCEPT !.offset =
                          @ + Share(it.fr, sums.fr, Sub(initial, sums.used))]
                 [] it.k = "frame" ->
                      LET ruler == AlignMax(c.ruler, it.align)
                      IN [c EXCEPT !.ruler = ruler,
                                   !.offset = @ + it.h,
                                   !.out = Append(@,
                                      [y |-> c.offset + Position(ruler, free),
                                       item |-> it])]
                 [] it.k = "placed" /\ it.float /\ it.y_align = "start" ->
                      [c EXCEPT !.float_top = @ + it.h,
                                !.out = Append(@, [y |-> c.float_top,
                                                   item |-> it])]
                 [] it.k = "placed" /\ it.float ->
                      [c EXCEPT !.float_bottom = @ + it.h,
                                !.out = Append(@,
                                   [y |-> size - sums.footnote
                                            - sums.float_bottom
                                            + c.float_bottom,
                                    item |-> it])]
                 [] it.k = "placed" ->
                      [c EXCEPT !.out = Append(@,
                          [y |-> IF it.y_align \in {"start", "center", "end"}
                                 THEN Position(it.y_align, size - it.h)
                                 ELSE c.offset + Position(c.ruler, free),
                           item |-> it])]
                 [] OTHER ->
                      [c EXCEPT !.footnote = @ + it.h + FootnoteGap,
                                !.out = Append(@,
                                   [y |-> size - sums.footnote + c.footnote,
                                    item |-> it])]
         IN PlaceItems(its, i + 1, nxt, sums, size, initial)

\* A forced commit that drains the pending tags and pushes none.
TagChildrenDropped(tags, y) == <<>>

\* finish_region, the pending tags pushed by a forced commit.
TagChildren(tags, y) ==
    [i \in 1..Len(tags) |->
        [y |-> y, item |-> [Blank EXCEPT !.k = "tag", !.id = tags[i]]]]

\* finish_region, were only the height tested before the frame is built.
ExpandErrorOfHeight(s) ==
    IF ~IsFinite(s.regions.size) /\ s.expand.y
    THEN "cannot expand into infinite height"
    ELSE ""

\* finish_region, the two tests before the frame is built: the message of
\* the error, "" when there is none.
ExpandError(s) ==
    IF ~IsFinite(s.regions.width) /\ s.expand.x
    THEN "cannot expand into infinite width"
    ELSE IF ~IsFinite(s.regions.size) /\ s.expand.y
    THEN "cannot expand into infinite height"
    ELSE ""

\* finish_region from "Trim weak spacing" to "self.has_footnotes = false".
FullCommit(s, force) ==
    LET its == TrimWeak(s.items)
        sums == Sums(its)
        size == CommitSize(s, sums)
        c == PlaceItems(its, 1,
                        [ruler |-> "start", float_top |-> 0,
                         offset |-> sums.float_top, float_bottom |-> 0,
                         footnote |-> 0, out |-> <<>>],
                        sums, size, s.initial)
        tagged == force /\ s.pending_tags # <<>>
        out == IF tagged THEN c.out \o TagChildren(s.pending_tags, c.offset)
               ELSE c.out
        s1 == [s EXCEPT !.items = <<>>,
                        !.pending_tags = IF tagged THEN <<>> ELSE @]
        s2 == AdvanceRegion(s1, [size |-> size, fast |-> FALSE, items |-> out],
                            RegionMeta([s EXCEPT !.items = its], force, FALSE,
                                       sums.used))
    IN IF ExpandError(s) # ""
       THEN [s EXCEPT !.items = its, !.err = ExpandError(s)]
       ELSE [s2 EXCEPT !.has_footnotes = FALSE]

\* for item in items { self.handle_item(item)?; }
RECURSIVE FeedItems(_, _)
FeedItems(s, its) ==
    IF its = <<>> \/ ~Ok(s) THEN s
    ELSE FeedItems(DoHandleItem(s, Head(its)), Tail(its))

\* The queued floats fed back from the newest to the oldest.
RefeedFloatsNewestFirst(s) ==
    FeedItems([s EXCEPT !.pending_floats = <<>>],
              [k \in 1..Len(s.pending_floats) |->
                  s.pending_floats[Len(s.pending_floats) + 1 - k]])

\* finish_region, "Try to place floats into the next region".
RefeedFloats(s) ==
    FeedItems([s EXCEPT !.pending_floats = <<>>], s.pending_floats)

\* finish_region.  A handler that commits more than MaxCommits regions is
\* cut off as looping forever.
FinishRegion(s, force) ==
    IF ~Ok(s) THEN s
    ELSE IF s.fuel = 0 THEN [s EXCEPT !.err = "diverged"]
    ELSE LET t == [s EXCEPT !.fuel = @ - 1]
         IN IF ~force /\ t.items # <<>> /\ AllOutOfFlow(t.items)
            THEN NoteCommit(t, FastPath(t))
            ELSE LET c == FullCommit(t, force)
                 IN IF Ok(c) THEN NoteCommit(t, RefeedFloats(c)) ELSE c

(* ------------------------------ footnotes ------------------------------ *)

\* A footnote element: its location, whether it is a reference to another
\* footnote, the height of its entry, whether the entry breaks across
\* regions, and the footnotes tagged in the entry.
Note(id, ref, eh, breakable, nested) ==
    [id |-> id, ref |-> ref, eh |-> eh, breakable |-> breakable,
     nested |-> nested]

HasNote(notes, id) == \E i \in 1..Len(notes) : notes[i].id = id

\* collect_footnotes: the footnotes tagged in the frame that are not in
\* `notes` yet, appended in the order of the frame's items.
RECURSIVE CollectNotes(_, _)
CollectNotes(notes, found) ==
    IF found = <<>> THEN notes
    ELSE CollectNotes(IF HasNote(notes, Head(found).id) THEN notes
                      ELSE Append(notes, Head(found)),
                      Tail(found))

CollectFootnotes(notes, frame) == CollectNotes(notes, frame.notes)

\* The frames a flow returns for breakable content of `rows` rows of height
\* 1: each row is put into the first region that fits it or is the last.
\* `cur` is the frame of the region being filled.
RECURSIVE BreakRows(_, _, _)
BreakRows(rg, rows, cur) ==
    IF rows = 0 THEN << cur >>
    ELSE IF Fits(rg.size, 1) \/ InLast(rg)
    THEN BreakRows([rg EXCEPT !.size = Sub(@, 1)], rows - 1,
                   [cur EXCEPT !.h = @ + 1])
    ELSE << cur >> \o BreakRows(RegionsNext(rg), rows,
                                [cur EXCEPT !.h = 0, !.part = @ + 1])

\* The frame that holds the first row carries the footnotes of the content.
RECURSIVE TagFirstRow(_, _)
TagFirstRow(frames, notes) ==
    IF frames = <<>> THEN <<>>
    ELSE IF Head(frames).h > 0
    THEN << [Head(frames) EXCEPT !.notes = notes] >> \o Tail(frames)
    ELSE << Head(frames) >> \o TagFirstRow(Tail(frames), notes)

\* The frames layout_fragment returns for an entry that does not break: one
\* frame, which the entry's own flow puts into the first region that fits it
\* or is the last; each region skipped yields an empty frame.
RECURSIVE WholeEntry(_, _)
WholeEntry(rg, note) ==
    IF Fits(rg.size, note.eh) \/ InLast(rg)
    THEN << Footnote(note.id, note.eh, "text", note.nested) >>
    ELSE << Footnote(note.id, 0, "none", <<>>) >>
         \o WholeEntry(RegionsNext(rg), note)

\* The frames of an entry that breaks, from the parts of its rows.
RECURSIVE EntryParts(_, _)
EntryParts(note, parts) ==
    IF parts = <<>> THEN <<>>
    ELSE << Footnote(note.id, Head(parts).h,
                     IF Head(parts).h > 0 THEN "text" ELSE "none", <<>>) >>
         \o EntryParts(note, Tail(parts))

\* The frames layout_fragment returns for a footnote entry.
EntryFrames(rg, note) ==
    IF note.breakable
    THEN TagFirstRow(EntryParts(note, BreakRows(rg, note.eh,
                                                [h |-> 0, part |-> 1])),
                     note.nested)
    ELSE WholeEntry(rg, note)

\* layout_footnote_separator.
LayoutFootnoteSeparator(s) ==
    LET h == SeparatorHeight + FootnoteClearance
    IN Push(Shrink([s EXCEPT !.has_footnotes = TRUE], h),
            Footnote(<<"separator">>, h, "text", <<>>))

\* The notes, were the nested ones left at the end.
KeepOrder(notes, k, nested) == notes

\* notes[k..].rotate_right(nested), k counted from 1 here.
RotateRight(notes, k, nested) ==
    LET n == Len(notes)
    IN SubSeq(notes, 1, k - 1) \o SubSeq(notes, n - nested + 1, n)
       \o SubSeq(notes, k, n - nested)

\* History: frame i of the entry of a footnote is pushed.
NoteEntry(s, frame, i) ==
    [s EXCEPT !.entries = Append(@, [id |-> frame.id, part |-> i,
                                     empty |-> IsEmpty(frame)])]

\* handle_footnotes, the loop over the frames of one entry.  The result is
\* the layouter and the notes.
RECURSIVE PushEntryFrames(_, _, _)
PushEntryFrames(r, frames, i) ==
    IF i > Len(frames) \/ ~Ok(r.s) THEN r
    ELSE LET notes == CollectFootnotes(r.notes, frames[i])
             s1 == IF i > 1
                   THEN LET c == DoFinishRegion(r.s, FALSE)
                        IN IF Ok(c)
                           THEN Shrink(LayoutFootnoteSeparator(c), FootnoteGap)
                           ELSE c
                   ELSE r.s
             s2 == IF Ok(s1)
                   THEN NoteEntry(Push(Shrink(s1, frames[i].h), frames[i]),
                                  frames[i], i)
                   ELSE s1
         IN PushEntryFrames([s |-> s2, notes |-> notes], frames, i + 1)

\* What handle_footnotes returns.
Returns(s, ok, notes) == [s EXCEPT !.ret = [ok |-> ok, notes |-> notes]]

\* handle_footnotes, "Undo everything".
Rollback(s, notes, saved) ==
    Returns([s EXCEPT !.items = SubSeq(@, 1, Min(Len(@), saved.items_len)),
                      !.regions.size = saved.size,
                      !.has_footnotes = saved.has_footnotes],
            FALSE, SubSeq(notes, 1, Min(Len(notes), saved.notes_len)))

\* The condition, were an entry that did not fit to end the call at any
\* note.
MustRollbackAnyNote(k, movable, force, frames) ==
    ~force /\ frames # <<>> /\ IsEmpty(frames[1])

\* The condition under which handle_footnotes gives up on an entry; k is
\* counted from 1.
MustRollback(k, movable, force, frames) ==
    ~force /\ (k = 1 \/ movable) /\ frames # <<>> /\ IsEmpty(frames[1])

\* handle_footnotes from index k (counted from 1) on; `saved` holds the
\* values saved on entry.
RECURSIVE HandleFootnotesFrom(_, _, _, _, _, _)
HandleFootnotesFrom(s, notes, k, movable, force, saved) ==
    IF ~Ok(s) \/ k > Len(notes) THEN Returns(s, TRUE, notes)
    ELSE IF notes[k].ref
         THEN HandleFootnotesFrom(s, notes, k + 1, movable, force, saved)
    ELSE LET s1 == IF ~s.has_footnotes THEN LayoutFootnoteSeparator(s) ELSE s
             s2 == Shrink(s1, FootnoteGap)
             frames == EntryFrames(s2.regions, notes[k])
         IN IF MustRollback(k, movable, force, frames)
            THEN Rollback(s2, notes, saved)
            ELSE LET before == Len(notes)
                     r == PushEntryFrames([s |-> s2, notes |-> notes],
                                          frames, 1)
                     nested == Len(r.notes) - before
                     rotated == IF nested > 0
                                THEN RotateRight(r.notes, k + 1, nested)
                                ELSE r.notes
                 IN HandleFootnotesFrom(r.s, rotated, k + 1, movable, force,
                                        saved)

\* What a call of handle_footnotes sees of the layouter and of its caller.
Seen(s, notes) ==
    [items |-> s.items, size |-> s.regions.size,
     has_footnotes |-> s.has_footnotes, notes |-> notes,
     finished |-> Len(s.finished), entries |-> Len(s.entries)]

\* History: a call of handle_footnotes on `s` has returned `r`.
NoteCall(s, r, notes, movable, force) ==
    [r EXCEPT !.calls = Append(@, [movable |-> movable, force |-> force,
                                   before |-> Seen(s, notes),
                                   after |-> Seen(r, r.ret.notes),
                                   ok |-> r.ret.ok, err |-> r.err])]

\* handle_footnotes.
HandleFootnotes(s, notes, movable, force) ==
    NoteCall(s,
             HandleFootnotesFrom(s, notes, 1, movable, force,
                                 [notes_len |-> Len(notes),
                                  items_len |-> Len(s.items),
                                  size |-> s.regions.size,
                                  has_footnotes |-> s.has_footnotes]),
             notes, movable, force)

\* try_handle_footnotes.
TryHandleFootnotes(s, notes) ==
    IF ~s.root \/ ~Ok(s) THEN s
    ELSE LET r == DoHandleFootnotes(s, notes, FALSE, InLast(s.regions))
         IN IF r.ret.ok THEN r
            ELSE LET c == DoFinishRegion(r, FALSE)
                 IN IF Ok(c) THEN DoHandleFootnotes(c, r.ret.notes, FALSE, TRUE)
                    ELSE c

(* ------------------------------ handle_item ---------------------------- *)

\* handle_item, Frame: while !fits(height) && !in_last { finish_region }.
RECURSIVE CommitUntilFits(_, _)
CommitUntilFits(s, height) ==
    IF Ok(s) /\ ~Fits(s.regions.size, height) /\ ~InLast(s.regions)
    THEN CommitUntilFits(DoFinishRegion(s, FALSE), height)
    ELSE s

\* History: handle_footnotes gave up on the footnotes of the movable frame
\* `item`, which was pushed into region `from`.
NoteMoved(s, item, from) ==
    [s EXCEPT !.moved = @ \cup { [line |-> item.id, from |-> from] }]

\* The footnotes handled before the frame is pushed.
HandleMovableNotesFirst(s, item, in_last) ==
    LET r == DoHandleFootnotes(s, CollectFootnotes(<<>>, item), TRUE, TRUE)
    IN IF Ok(r) THEN Push(r, item) ELSE r

\* handle_item, Frame, when the flow is root and the frame movable: the
\* frame is pushed with its footnotes, or taken back and pushed into the next
\* region.
HandleMovable(s, item, in_last) ==
    LET notes == CollectFootnotes(<<>>, item)
        r == DoHandleFootnotes(Push(s, item), notes, TRUE, in_last)
    IN IF r.ret.ok THEN r
       ELSE LET popped == IF r.items = <<>> THEN <<>> ELSE << Last(r.items) >>
                c == DoFinishRegion(
                         NoteMoved([r EXCEPT !.items = Front(@)], item,
                                   Len(s.finished) + 1),
                         FALSE)
            IN IF ~Ok(c) THEN c
               ELSE DoHandleFootnotes(
                        Shrink([c EXCEPT !.items = @ \o popped], item.h),
                        r.ret.notes, TRUE, TRUE)

\* handle_item, Frame, were a frame that does not fit to commit the last
\* region as well.
HandleFrameNoOverset(s, item) ==
    LET s0 == CommitUntilFits(s, item.h)
        s1 == IF Ok(s0) /\ ~Fits(s0.regions.size, item.h)
              THEN DoFinishRegion(s0, FALSE) ELSE s0
        in_last == InLast(s1.regions)
        s2 == Shrink(s1, item.h)
    IN IF ~Ok(s1) THEN s1
       ELSE IF s.root /\ item.movable THEN HandleMovable(s2, item, in_last)
       ELSE Push(s2, item)

\* handle_item, Frame.
HandleFrame(s, item) ==
    LET s1 == CommitUntilFits(s, item.h)
        in_last == InLast(s1.regions)
        s2 == Shrink(s1, item.h)
    IN IF ~Ok(s1) THEN s1
       ELSE IF s.root /\ item.movable THEN HandleMovable(s2, item, in_last)
       ELSE Push(s2, item)

\* The test without the queued float in front.
MustQueueIfNoFit(s, item) ==
    ~Fits(s.regions.size, item.h + item.clearance) /\ ~InLast(s.regions)

\* handle_item, floating Placed: "If there is a queued float in front or if
\* the float doesn't fit, queue it for the next region."
MustQueue(s, item) ==
    \/ s.pending_floats # <<>>
    \/ (~Fits(s.regions.size, item.h + item.clearance) /\ ~InLast(s.regions))

\* The placement chosen with `ratio < 0.5`.
BetterAlignStrict(size, full, height, clearance) ==
    IF 2 * size - (height + clearance) < full THEN "end" ELSE "start"

\* handle_item, floating Placed: "Select the closer placement, top or
\* bottom": ratio = (size.y - (height + clearance) / 2) / full <= 0.5.
BetterAlign(size, full, height, clearance) ==
    IF 2 * size - (height + clearance) <= full THEN "end" ELSE "start"

\* handle_item, floating Placed.
HandleFloat(s, item) ==
    IF MustQueue(s, item)
    THEN [s EXCEPT !.pending_floats = Append(@, item)]
    ELSE LET y_align == IF item.y_align = "auto"
                        THEN BetterAlign(s.regions.size, s.regions.full,
                                         item.h, item.clearance)
                        ELSE item.y_align
             placed == [item EXCEPT !.y_align = y_align,
                                    !.h = @ + item.clearance,
                                    !.at = << s.regions.size, s.regions.full,
                                              item.y_align >>]
             s1 == Shrink(s, placed.h)
             s2 == IF s.root
                   THEN DoTryHandleFootnotes(s1, CollectFootnotes(<<>>, placed))
                   ELSE s1
         IN IF Ok(s2) THEN Push(s2, placed) ELSE s2

\* Weak spacing dropped unless an in-flow frame precedes it.
HandleAbsoluteInFlow(s, item) ==
    IF item.weak /\ ~\E i \in 1..Len(s.items) :
                        s.items[i].k = "frame" /\ ~IsOutOfFlow(s.items[i])
    THEN s
    ELSE Push(Shrink(s, item.h), item)

\* handle_item, Absolute.
HandleAbsolute(s, item) ==
    IF item.weak /\ ~AnyFrame(s.items) THEN s
    ELSE Push(Shrink(s, item.h), item)

\* History: handle_item, called on `s` with the placed item, has returned
\* `r`.
NotePlaced(s, item, r) ==
    [r EXCEPT !.floats = Append(@, [item |-> item, root |-> s.root,
                                    before |-> View(s), after |-> View(r),
                                    err |-> r.err])]

\* handle_item.
HandleItem(s, item) ==
    IF ~Ok(s) THEN s
    ELSE CASE item.k = "abs" -> HandleAbsolute(s, item)
           [] item.k = "frame" -> HandleFrame(s, item)
           [] item.k = "placed" /\ item.float ->
                  NotePlaced(s, item, HandleFloat(s, item))
           [] item.k = "placed" -> NotePlaced(s, item, Push(s, item))
           [] OTHER -> Push(s, item)

(* ------------------------------- handlers ------------------------------ *)

\* drain_tag: the pending tags are prepended to a frame that is not empty.
\* The result is the layouter and the frame.
DrainTag(s, frame) ==
    IF s.pending_tags # <<>> /\ ~IsEmpty(frame)
    THEN [s |-> [s EXCEPT !.pending_tags = <<>>],
          frame |-> [frame EXCEPT !.tags = s.pending_tags \o @]]
    ELSE [s |-> s, frame |-> frame]

\* handle_tag.
HandleTag(s, tag) == [s EXCEPT !.pending_tags = Append(@, tag)]

\* handle_v.
HandleV(s, item) == DoHandleItem(s, item)

\* A column break that commits whether a region is left or not.
HandleColbreakAlways(s) == DoFinishRegion(s, TRUE)

\* A column break that commits only while regions are left in the backlog.
HandleColbreakInBacklog(s) ==
    IF s.regions.backlog # <<>> THEN DoFinishRegion(s, TRUE) ELSE s

\* handle_colbreak.
HandleColbreak(s) ==
    IF HasNextRegion(s.regions) THEN DoFinishRegion(s, TRUE) ELSE s

\* finish_region_with_migration, "Find the suffix of sticky items": the
\* index (from 1) of the first item carried over, Len(items) + 1 for none.
RECURSIVE StickyStart(_, _, _)
StickyStart(its, i, sticky) ==
    IF i = 0 THEN sticky
    ELSE CASE its[i].k = "abs" -> StickyStart(its, i - 1, sticky)
           [] its[i].k = "frame" /\ its[i].sticky -> StickyStart(its, i - 1, i)
           [] OTHER -> sticky

\* A migration that drains the sticky suffix and never feeds it back.
FinishRegionLosingCarry(s) ==
    LET sticky == StickyStart(s.items, Len(s.items), Len(s.items) + 1)
        c == DoFinishRegion([s EXCEPT !.items = SubSeq(@, 1, sticky - 1)], FALSE)
    IN [s |-> c, in_last |-> InLast(c.regions)]

\* History: finish_region_with_migration, called on `s`, carried `carry`
\* over and has returned `r`.
NoteMigration(s, carry, r) ==
    IF Ok(r) /\ Len(r.log) > Len(s.log)
    THEN [r EXCEPT !.log[Len(s.log) + 1].migration =
                       << [found |-> s.items, carry |-> carry,
                           left |-> View(r)] >>]
    ELSE r

\* The migration, were the carried items fed back last to first.
FinishRegionReversing(s) ==
    LET sticky == StickyStart(s.items, Len(s.items), Len(s.items) + 1)
        carry == SubSeq(s.items, sticky, Len(s.items))
        back == [k \in 1..Len(carry) |-> carry[Len(carry) + 1 - k]]
        c == DoFinishRegion([s EXCEPT !.items = SubSeq(@, 1, sticky - 1)], FALSE)
    IN [s |-> NoteMigration(s, carry, FeedItems(c, back)),
        in_last |-> InLast(c.regions)]

\* finish_region_with_migration.  The result is the layouter and the
\* returned flag.
FinishRegionWithMigration(s) ==
    LET sticky == StickyStart(s.items, Len(s.items), Len(s.items) + 1)
        carry == SubSeq(s.items, sticky, Len(s.items))
        c == DoFinishRegion([s EXCEPT !.items = SubSeq(@, 1, sticky - 1)], FALSE)
    IN [s |-> NoteMigration(s, carry, FeedItems(c, carry)),
        in_last |-> InLast(c.regions)]

\* handle_par, "If the first line doesn't fit in this region, then defer any
\* previous sticky frame to the next region".
RECURSIVE MigrateUntilFits(_, _)
MigrateUntilFits(s, height) ==
    IF Ok(s) /\ ~Fits(s.regions.size, height) /\ ~InLast(s.regions)
    THEN LET m == FinishRegionWithMigration(s)
         IN IF m.in_last THEN m.s ELSE MigrateUntilFits(m.s, height)
    ELSE s

\* The budget without the case of a paragraph of just three lines.
NeededWithoutAll(par, i) ==
    LET len == Len(par.lines)
        prevent_orphans ==
            par.orphan /\ len >= 2 /\ ~IsEmpty(par.lines[2])
        prevent_widows ==
            par.widow /\ len >= 2 /\ ~IsEmpty(par.lines[len - 1])
    IN IF prevent_orphans /\ i = 1
       THEN par.lines[1].h + par.leading + par.lines[2].h
       ELSE IF prevent_widows /\ i >= 3 /\ i + 1 = len
       THEN par.lines[len - 1].h + par.leading + par.lines[len].h
       ELSE par.lines[i].h

\* handle_par, the vertical budget required before line i (from 1).
Needed(par, i) ==
    LET len == Len(par.lines)
        prevent_orphans ==
            par.orphan /\ len >= 2 /\ ~IsEmpty(par.lines[2])
        prevent_widows ==
            par.widow /\ len >= 2 /\ ~IsEmpty(par.lines[len - 1])
        prevent_all == len = 3 /\ prevent_orphans /\ prevent_widows
        height_at(j) == IF j >= 1 /\ j <= len THEN par.lines[j].h ELSE 0
        front_1 == height_at(1)
        front_2 == height_at(2)
        back_2 == height_at(Max(len - 1, 1))
        back_1 == height_at(Max(len, 1))
    IN IF prevent_all /\ i = 1
       THEN front_1 + par.leading + front_2 + par.leading + back_1
       ELSE IF prevent_orphans /\ i = 1
       THEN front_1 + par.leading + front_2
       ELSE IF prevent_widows /\ i >= 3 /\ i + 1 = len
       THEN back_2 + par.leading + back_1
       ELSE par.lines[i].h

\* History: the frame handed over last is line i of `par`; handle_par found
\* the layouter as `found` when it looked at the room for the line and left
\* it as `left` before the line was handed over.
NoteLine(s, par, i, found, left) ==
    [s EXCEPT !.emitted[Len(s.emitted)].line =
                  << [par |-> par, i |-> i, found |-> View(found),
                      left |-> View(left)] >>]

\* The test without the look at the next region.
MustAdvanceUnseen(rg, needed) ==
    /\ ~InLast(rg)
    /\ ~Fits(rg.size, needed)

\* handle_par, "If the line(s) don't fit into this region, but they do fit
\* into the next, then advance."
MustAdvance(rg, needed) ==
    /\ ~InLast(rg)
    /\ ~Fits(rg.size, needed)
    /\ NextRegionHeight(rg) # NoneH
    /\ Fits(NextRegionHeight(rg), needed)

\* handle_par, "Layout the lines": the loop from line i (from 1) on.
RECURSIVE LayoutLines(_, _, _)
LayoutLines(s, par, i) ==
    IF i > Len(par.lines) \/ ~Ok(s) THEN s
    ELSE LET s1 == IF i > 1
                   THEN DoHandleItem(s, Absolute(par.leading, TRUE))
                   ELSE s
             s2 == IF Ok(s1) /\ MustAdvance(s1.regions, Needed(par, i))
                   THEN DoFinishRegion(s1, FALSE)
                   ELSE s1
             d == DrainTag(s2, par.lines[i])
             s3 == IF Ok(s2)
                   THEN Land(DoHandleItem(NoteLine(Emit(d.s, d.frame, TRUE),
                                                   par, i, s1, s2),
                                          [d.frame EXCEPT !.align = par.align,
                                                          !.sticky = FALSE,
                                                          !.movable = TRUE]))
                   ELSE s2
         IN LayoutLines(s3, par, i + 1)

\* The last item of `its` that is not out-of-flow; Blank for none.
RECURSIVE TrailingInFlow(_)
TrailingInFlow(its) ==
    IF its = <<>> THEN Blank
    ELSE IF IsOutOfFlow(Last(its)) THEN TrailingInFlow(Front(its))
    ELSE Last(its)

\* History: handle_par is entered in a region that is not the last, whose
\* trailing in-flow item is a sticky frame, with a first line that does not
\* fit.
NoteStuck(s, par) ==
    LET trailing == TrailingInFlow(s.items)
    IN IF /\ par.lines # <<>>
          /\ trailing.k = "frame" /\ trailing.sticky
          /\ ~InLast(s.regions)
          /\ ~Fits(s.regions.size, par.lines[1].h)
       THEN [s EXCEPT !.stuck = @ \cup { [sticky |-> trailing.id,
                                          line |-> par.lines[1].id,
                                          from |-> Len(s.finished) + 1] }]
       ELSE s

\* The height of the first n lines with the leading between them.
RECURSIVE LinesHeight(_, _)
LinesHeight(par, n) ==
    IF n = 0 THEN 0
    ELSE par.lines[n].h + (IF n > 1 THEN par.leading ELSE 0)
         + LinesHeight(par, n - 1)

\* History: handle_par is entered with a paragraph of three lines and a
\* widow cost, in a region with room for two of the lines but not for the
\* three, followed by a region with room for the three.
NoteTight(s, par) ==
    IF /\ Len(par.lines) = 3
       /\ par.widow
       /\ Fits(s.regions.size, LinesHeight(par, 2))
       /\ ~Fits(s.regions.size, LinesHeight(par, 3))
       /\ NextRegionHeight(s.regions) # NoneH
       /\ Fits(NextRegionHeight(s.regions), LinesHeight(par, 3))
    THEN [s EXCEPT !.tight = @ \cup
            { [lines |-> [i \in 1..3 |-> par.lines[i].id],
               from |-> Len(s.finished) + 1,
               orphan |-> par.orphan /\ ~IsEmpty(par.lines[2]),
               floats |-> s.pending_floats # <<>>,
               notes |-> \E i \in 1..3 : par.lines[i].notes # <<>>] }]
    ELSE s

\* handle_par.
HandlePar(s, par) ==
    LET s1 == IF par.lines # <<>>
              THEN MigrateUntilFits(NoteTight(NoteStuck(s, par), par),
                                    par.lines[1].h)
              ELSE s
        s2 == LayoutLines(s1, par, 1)
    IN IF Ok(s2) THEN [s2 EXCEPT !.last_was_par = TRUE] ELSE s2

\* handle_block, "Find footnotes in the frame" to handle_item: the loop over
\* the frames of the fragment.  The result is the layouter and the notes.
RECURSIVE LayoutBlockFrames(_, _, _, _)
LayoutBlockFrames(r, block, frames, i) ==
    IF i > Len(frames) \/ ~Ok(r.s) THEN r
    ELSE LET notes == IF r.s.root THEN CollectFootnotes(r.notes, frames[i])
                      ELSE r.notes
             s1 == IF i > 1 THEN DoFinishRegion(r.s, FALSE) ELSE r.s
             d == DrainTag(s1, frames[i])
             s2 == IF Ok(s1)
                   THEN Land(DoHandleItem(Emit(d.s, d.frame, FALSE),
                                          [d.frame EXCEPT !.align = block.align,
                                                          !.sticky = block.sticky,
                                                          !.movable = FALSE]))
                   ELSE s1
         IN LayoutBlockFrames([s |-> s2, notes |-> notes], block, frames, i + 1)

\* A block frame: part `part` of block `id`.
BlockFrame(id, part, h, content, notes) ==
    FrameItem(<< id, part >>, h, content, notes, "start", FALSE, FALSE)

RECURSIVE RowFrames(_, _, _)
RowFrames(id, block, parts) ==
    IF parts = <<>> THEN <<>>
    ELSE << BlockFrame(id, Head(parts).part, Head(parts).h,
                       IF Head(parts).h > 0 THEN "text" ELSE "none",
                       <<>>) >>
         \o RowFrames(id, block, Tail(parts))

\* The frames block.layout returns.  An unbreakable block is one frame; a
\* breakable block is broken by rows, its footnotes tagged in the first row.
BlockLayout(rg, id, block) ==
    IF block.breakable /\ block.rows >= 1
    THEN TagFirstRow(RowFrames(id, block,
                               BreakRows(rg, block.rows, [h |-> 0, part |-> 1])),
                     block.notes)
    ELSE << BlockFrame(id, 1, block.rows, block.content, block.notes) >>

\* handle_block, were the flow to stay root while a rootable block is laid
\* out.
HandleBlockAsRoot(s, id, block) ==
    LET is_root == s.root
        s2 == IF IsFull(s.regions) THEN DoFinishRegion(s, FALSE) ELSE s
        frames == BlockLayout(s2.regions, id, block)
        r == LayoutBlockFrames([s |-> s2, notes |-> <<>>], block, frames, 1)
        s3 == DoTryHandleFootnotes(r.s, r.notes)
    IN IF ~Ok(s2) THEN s2
       ELSE IF ~Ok(s3) THEN s3
       ELSE [s3 EXCEPT !.root = is_root, !.regions.root = FALSE,
                       !.last_was_par = FALSE]

\* handle_block.
HandleBlock(s, id, block) ==
    LET is_root == s.root
        s1 == IF is_root /\ block.rootable
              THEN [s EXCEPT !.root = FALSE, !.regions.root = TRUE]
              ELSE s
        s2 == IF IsFull(s1.regions) THEN DoFinishRegion(s1, FALSE) ELSE s1
        frames == BlockLayout(s2.regions, id, block)
        r == LayoutBlockFrames([s |-> s2, notes |-> <<>>], block, frames, 1)
        s3 == DoTryHandleFootnotes(r.s, r.notes)
    IN IF ~Ok(s2) THEN s2
       ELSE IF ~Ok(s3) THEN s3
       ELSE [s3 EXCEPT !.root = is_root, !.regions.root = FALSE,
                       !.last_was_par = FALSE]

\* handle_place.
HandlePlace(s, item) == DoHandleItem(s, item)

\* handle_flush: while !pending_floats.is_empty() { finish_region(false) }.
RECURSIVE CommitUntilFlushed(_)
CommitUntilFlushed(s) ==
    IF Ok(s) /\ s.pending_floats # <<>>
    THEN CommitUntilFlushed(DoFinishRegion(s, FALSE))
    ELSE s

\* handle_flush.
HandleFlush(s) ==
    CommitUntilFlushed(FeedItems([s EXCEPT !.pending_floats = <<>>],
                                 s.pending_floats))

\* finish: while !backlog.is_empty() { finish_region(true) }.
RECURSIVE CommitBacklog(_)
CommitBacklog(s) ==
    IF Ok(s) /\ s.regions.backlog # <<>>
    THEN CommitBacklog(DoFinishRegion(s, TRUE))
    ELSE s

\* finish: while !items.is_empty() { finish_region(true) }.
RECURSIVE CommitItems(_)
CommitItems(s) ==
    IF Ok(s) /\ s.items # <<>>
    THEN CommitItems(DoFinishRegion(s, TRUE))
    ELSE s

\* finish.
Finish(s) ==
    LET s1 == IF s.expand.y THEN CommitBacklog(s) ELSE s
    IN CommitItems(DoFinishRegion(s1, TRUE))

\* The callee named by fn, applied to the layouter and its arguments.
Call(fn, s, a) ==
    CASE fn = "finish_region" -> FinishRegion(s, a.force)
      [] fn = "handle_item" -> HandleItem(s, a.item)
      [] fn = "handle_footnotes" ->
           HandleFootnotes(s, a.notes, a.movable, a.force)
      [] fn = "try_handle_footnotes" -> TryHandleFootnotes(s, a.notes)
      [] fn = "handle_tag" -> HandleTag(s, a.tag)
      [] fn = "handle_v" -> HandleV(s, a.item)
      [] fn = "handle_colbreak" -> HandleColbreak(s)
      [] fn = "handle_par" -> HandlePar(s, a.par)
      [] fn = "handle_block" -> HandleBlock(s, a.id, a.block)
      [] fn = "handle_place" -> HandlePlace(s, a.item)
      [] fn = "handle_flush" -> HandleFlush(s)
      [] OTHER -> Finish(s)

(* ------------------------------- the state ----------------------------- *)

VARIABLES
    regions,         \* FlowLayouter.regions: size.y, full.y, backlog, last, root
    root,            \* FlowLayouter.root
    expand,          \* FlowLayouter.expand
    initial,         \* FlowLayouter.initial.y
    last_was_par,    \* FlowLayouter.last_was_par
    items,           \* FlowLayouter.items
    pending_tags,    \* FlowLayouter.pending_tags
    pending_floats,  \* FlowLayouter.pending_floats
    has_footnotes,   \* FlowLayouter.has_footnotes
    finished,        \* FlowLayouter.finished
    pc,              \* "layout": in the loop of layout; "done": layout has
                     \* returned; "diverged": a handler does not return
    nchild,          \* the number of children handled so far
    advanced,        \* history: the number of calls of regions.next()
    log,             \* history: one record per committed region
    emitted,         \* history: the frames handed to handle_item by
                     \* handle_par and handle_block, in order
    stuck,           \* history: the sticky frames met by a paragraph whose
                     \* first line did not fit
    tight,           \* history: the paragraphs of three lines met with room
                     \* for two
    moved,           \* history: the movable frames whose footnotes did not
                     \* fit
    entries,         \* history: the frames of footnote entries pushed by
                     \* handle_footnotes, in order
    calls,           \* history: the calls of handle_footnotes that have
                     \* returned, in order
    floats,          \* history: the calls of handle_item with a placed item
                     \* that have returned, in order
    op,              \* history: the last child handled
    prev,            \* history: the layouter before the last child
    children,        \* layout_document_impl: the root children, in order
    layouts,         \* layout_document_impl: the result of each page run
    completed,       \* history: the runs in the order their layouts ended
    page_counter,    \* layout_document_impl: the ManualPageCounter
    pages,           \* layout_document_impl: the pages finalized so far
    cursor,          \* layout_document_impl: the results consumed so far
    returned,        \* what layout_document has returned
    doc_pc,          \* the position of layout_document_impl
    columns,         \* layout_fragment_with_columns: its arguments and the
                     \* frames of the pod layout
    fragment,        \* layout_fragment_with_columns: the frames returned
    col_pc           \* the position of layout_fragment_with_columns

flowvars ==
    << regions, root, expand, initial, last_was_par, items, pending_tags,
       pending_floats, has_footnotes, finished, pc, nchild, advanced, log,
       emitted, stuck, tight, moved, entries, calls, floats, op, prev >>

docvars ==
    << children, layouts, completed, page_counter, pages, cursor, returned,
       doc_pc >>

colvars == << columns, fragment, col_pc >>

vars == << flowvars, docvars, colvars >>

\* The layouter as a record, with the commits a handler may take.
Layouter ==
    [regions |-> regions, root |-> root, expand |-> expand,
     initial |-> initial, last_was_par |-> last_was_par, items |-> items,
     pending_tags |-> pending_tags, pending_floats |-> pending_floats,
     has_footnotes |-> has_footnotes, finished |-> finished,
     advanced |-> advanced, log |-> log, emitted |-> emitted,
     stuck |-> stuck, tight |-> tight, moved |-> moved,
     entries |-> entries, calls |-> calls, floats |-> floats,
     err |-> "", fuel |-> MaxCommits, ret |-> [ok |-> TRUE, notes |-> <<>>]]

\* The heights a region of the stream may have.
RegionHeights == {MaxRegion - 2, MaxRegion}

\* FlowLayouter::new.
New(rg, ex) ==
    [regions |-> [rg EXCEPT !.root = FALSE], root |-> rg.root, expand |-> ex,
     initial |-> rg.size, last_was_par |-> FALSE, items |-> <<>>,
     pending_tags |-> <<>>, pending_floats |-> <<>>, has_footnotes |-> FALSE,
     finished |-> <<>>, advanced |-> 0, log |-> <<>>, emitted |-> <<>>,
     stuck |-> {}, tight |-> {}, moved |-> {}, entries |-> <<>>,
     calls |-> <<>>, floats |-> <<>>,
     err |-> "", fuel |-> MaxCommits, ret |-> [ok |-> TRUE, notes |-> <<>>]]

\* The layouter after a handler: the variables take the record's fields.
Becomes(s, done) ==
    /\ regions' = s.regions
    /\ root' = s.root
    /\ expand' = s.expand
    /\ initial' = s.initial
    /\ last_was_par' = s.last_was_par
    /\ items' = s.items
    /\ pending_tags' = s.pending_tags
    /\ pending_floats' = s.pending_floats
    /\ has_footnotes' = s.has_footnotes
    /\ finished' = s.finished
    /\ advanced' = s.advanced
    /\ log' = s.log
    /\ emitted' = s.emitted
    /\ stuck' = s.stuck
    /\ tight' = s.tight
    /\ moved' = s.moved
    /\ entries' = s.entries
    /\ calls' = s.calls
    /\ floats' = s.floats
    /\ pc' = IF s.err # "" THEN s.err ELSE IF done THEN "done" ELSE "layout"
    /\ UNCHANGED << docvars, colvars >>

\* The record kept of the child handled.
Handled(kind, arg) ==
    /\ op' = [kind |-> kind, arg |-> arg]
    /\ prev' = [Layouter EXCEPT !.finished = Len(@), !.log = Len(@),
                                 !.emitted = Len(@), !.entries = Len(@),
                                 !.calls = Len(@), !.floats = Len(@)]
    /\ nchild' = nchild + 1

\* The region streams a flow starts with: one region or two, followed by
\* nothing or by a repeating region of the larger height.
RegionsOf(size, rt) ==
    { [size |-> size, full |-> size, backlog |-> backlog, last |-> last,
       width |-> MaxRegion, root |-> rt] :
      backlog \in {<<>>} \cup {<< b >> : b \in RegionHeights \ {size}},
      last \in {NoneH, MaxRegion} }

RegionChoices ==
    UNION { RegionsOf(size, rt) : size \in RegionHeights, rt \in BOOLEAN }

\* Regions with an infinite axis: repeating regions of infinite height, or a
\* region of infinite width followed by repeating larger ones.
InfiniteChoices ==
    { [size |-> Inf, full |-> Inf, backlog |-> <<>>, last |-> Inf,
       width |-> MaxRegion, root |-> FALSE],
      [size |-> MaxRegion - 2, full |-> MaxRegion - 2, backlog |-> <<>>,
       last |-> MaxRegion, width |-> Inf, root |-> FALSE] }

\* The regions and the expansion a flow is laid out with: a root flow of
\* finite regions expands vertically or not, another flow of finite regions
\* does not expand, and a flow with an infinite axis expands along it or not.
FlowChoices ==
    { << rg, [x |-> FALSE, y |-> ey] >> :
        rg \in RegionChoices, ey \in BOOLEAN } \cup
    { << rg, [x |-> e /\ ~IsFinite(rg.width), y |-> e /\ ~IsFinite(rg.size)] >> :
        rg \in InfiniteChoices, e \in BOOLEAN }

\* The flow variables of a fresh layouter `s`, at position `at`.
FlowStarts(s, at) ==
    /\ regions = s.regions
    /\ root = s.root
    /\ expand = s.expand
    /\ initial = s.initial
    /\ last_was_par = s.last_was_par
    /\ items = s.items
    /\ pending_tags = s.pending_tags
    /\ pending_floats = s.pending_floats
    /\ has_footnotes = s.has_footnotes
    /\ finished = s.finished
    /\ advanced = s.advanced
    /\ log = s.log
    /\ emitted = s.emitted
    /\ stuck = s.stuck
    /\ tight = s.tight
    /\ moved = s.moved
    /\ entries = s.entries
    /\ calls = s.calls
    /\ floats = s.floats
    /\ pc = at
    /\ nchild = 0
    /\ op = [kind |-> "new", arg |-> <<>>]
    /\ prev = [s EXCEPT !.finished = 0, !.log = 0, !.emitted = 0,
                        !.entries = 0, !.calls = 0, !.floats = 0]

\* ManualPageCounter::new.
PageCounterNew == [physical |-> 1, logical |-> 1]

\* What layout_document has returned: nothing yet.
NotReturned ==
    [ok |-> FALSE, pages |-> <<>>, err |-> [msg |-> "", span |-> 0]]

\* No document is being laid out.
NoDocument ==
    /\ children = <<>>
    /\ layouts = <<>>
    /\ completed = <<>>
    /\ page_counter = PageCounterNew
    /\ pages = <<>>
    /\ cursor = 0
    /\ returned = NotReturned
    /\ doc_pc = "idle"

\* No content is being laid out in columns.
NoColumns ==
    /\ columns = <<>>
    /\ fragment = <<>>
    /\ col_pc = "idle"

Init ==
    /\ \E c \in FlowChoices :
          /\ (c[2].y /\ IsFinite(c[1].size) => c[1].root)
          /\ FlowStarts(New(c[1], c[2]), "layout")
    /\ NoDocument
    /\ NoColumns

\* The last child was a weak spacing that was kept: what follows it decides
\* whether it shows.
AfterWeak ==
    /\ op.kind = "v" /\ op.arg.k = "abs" /\ op.arg.weak
    /\ items # <<>> /\ Last(items) = op.arg

\* A float is queued while the items of the region are all out-of-flow: what
\* follows decides where the float ends up.
AfterQueued ==
    /\ pending_floats # <<>>
    /\ items # <<>> /\ AllOutOfFlow(items)

\* Two floats are queued: what follows decides how they are fed back.
AfterTwoQueued == Len(pending_floats) >= 2

\* Pending tags were attached to a frame that is among the items: what
\* follows decides where later tags go.
AfterTagged == \E k \in 1..Len(items) : items[k].tags # <<>>

\* The items end with a sticky frame behind other items: what follows
\* decides which region they end up in.
AfterSticky ==
    /\ Len(items) >= 2
    /\ Last(items).k = "frame" /\ Last(items).sticky

\* The flow has a further child: it has up to MaxChildren children, and one
\* more after a weak spacing that was kept, a float that was queued behind
\* out-of-flow items or another float, a sticky frame behind other items, or
\* a frame that took the pending tags.
More ==
    /\ pc = "layout"
    /\ \/ nchild < MaxChildren
       \/ nchild = MaxChildren /\ (\/ AfterWeak \/ AfterQueued
                                    \/ AfterTwoQueued \/ AfterSticky
                                    \/ AfterTagged)

\* The location of the next child.
Id == nchild + 1

(* ------------------------------- children ------------------------------ *)

\* The footnotes a frame of child `id` may carry in a root flow: none; one
\* whose entry is of height 1; one whose entry is of height 2 and holds a
\* footnote itself, unbreakable or breakable.
NoteA(id) == << Note(<< id, "a" >>, FALSE, 1, FALSE, <<>>) >>
NoteB(id) ==
    << Note(<< id, "b" >>, FALSE, 2, FALSE,
            << Note(<< id, "c" >>, FALSE, 1, FALSE, <<>>) >>) >>
NoteC(id) ==
    << Note(<< id, "b" >>, FALSE, 2, TRUE,
            << Note(<< id, "c" >>, FALSE, 1, FALSE, <<>>) >>) >>

NoteChoices(id) ==
    IF root THEN { <<>>, NoteA(id), NoteB(id), NoteC(id) } ELSE { <<>> }

\* One footnote, in a root flow.
OneNote(id) == IF root THEN { NoteA(id) } ELSE {}

\* Footnotes the first of which has an entry that holds a footnote, in a
\* root flow: that one alone, or followed by another.
NestedNote(id) ==
    IF root THEN { NoteB(id), NoteB(id) \o NoteA(id) } ELSE {}

\* The paragraphs: lines of height 1 with a leading of 1; the last line may
\* carry footnotes (in a paragraph of one line, or of three with both
\* costs).
Line(id, i, notes) ==
    FrameItem(<< id, i >>, 1, "text", notes, "start", FALSE, TRUE)

ParOf(id, len, orphan, widow, notes) ==
    [lines |-> [i \in 1..len |-> Line(id, i, IF i = len THEN notes ELSE <<>>)],
     leading |-> 1, orphan |-> orphan, widow |-> widow, align |-> "start"]

ParChoices(id) ==
    { ParOf(id, 1, FALSE, FALSE, notes) : notes \in NoteChoices(id) }
    \cup { ParOf(id, 2, c, c, <<>>) : c \in BOOLEAN }
    \cup { ParOf(id, len, c[1], c[2], <<>>) :
           len \in 3..MaxLines,
           c \in { << FALSE, FALSE >>, << FALSE, TRUE >>, << TRUE, TRUE >> } }
    \cup { ParOf(id, 3, TRUE, TRUE, notes) :
           notes \in OneNote(id) }
    \cup { ParOf(id, MaxLines + 1, FALSE, TRUE, <<>>) }

\* The blocks: one frame of only tags; unbreakable blocks of height 1, MaxH
\* and MaxH + 1; a sticky block of height MaxH - 1; a block of height 1 with a footnote, or with a footnote
\* that holds another; a breakable block of MaxH + 1 rows.
BlockOf(rows, breakable, sticky, rootable, notes) ==
    [rows |-> rows, breakable |-> breakable, sticky |-> sticky,
     rootable |-> rootable, content |-> IF rows = 0 THEN "meta" ELSE "text",
     notes |-> notes, align |-> "start"]

BlockChoices(id) ==
    { BlockOf(0, FALSE, FALSE, FALSE, <<>>),
      BlockOf(MaxH + 1, FALSE, FALSE, FALSE, <<>>) }
    \cup { BlockOf(rows, FALSE, sticky, FALSE, <<>>) :
           rows \in {1, MaxH}, sticky \in BOOLEAN }
    \cup { BlockOf(MaxH - 1, FALSE, TRUE, FALSE, <<>>) }
    \cup { BlockOf(1, FALSE, FALSE, rootable, notes) :
           rootable \in BOOLEAN, notes \in OneNote(id) }
    \cup { BlockOf(1, FALSE, FALSE, FALSE, notes) : notes \in NestedNote(id) }
    \cup { BlockOf(MaxH + 1, TRUE, FALSE, FALSE, notes) :
           notes \in { <<>> } \cup OneNote(id) }

\* The placed elements: one that does not float; floats of height 1 with
\* either alignment and clearance; a float of height MaxH + 1; a float with
\* a footnote.
PlaceChoices(id) ==
    { Placed(<< id, 1 >>, 1, <<>>, "auto", FALSE, 0),
      Placed(<< id, 1 >>, MaxH + 1, <<>>, "auto", TRUE, 0) }
    \cup { Placed(<< id, 1 >>, 1, <<>>, y, TRUE, c) :
           y \in {"auto", "start", "end"}, c \in {0, 1} }
    \cup { Placed(<< id, 1 >>, 1, notes, "auto", TRUE, 0) :
           notes \in OneNote(id) }

\* The vertical spacings.
VChoices ==
    { Absolute(1, TRUE), Absolute(1, FALSE), Absolute(MaxH, FALSE),
      Fractional(1) }

(* ------------------------------- actions ------------------------------- *)

Tag ==
    /\ More
    /\ Becomes(Call("handle_tag", Layouter, [tag |-> Id]), FALSE)
    /\ Handled("tag", Id)

V ==
    /\ More
    /\ \E item \in VChoices :
        /\ Becomes(Call("handle_v", Layouter, [item |-> item]), FALSE)
        /\ Handled("v", item)

Colbreak ==
    /\ More
    /\ Becomes(Call("handle_colbreak", Layouter, <<>>), FALSE)
    /\ Handled("colbreak", <<>>)

Par ==
    /\ More
    /\ \E par \in ParChoices(Id) :
        /\ Becomes(Call("handle_par", Layouter, [par |-> par]), FALSE)
        /\ Handled("par", par)

Block ==
    /\ More
    /\ \E block \in BlockChoices(Id) :
        /\ Becomes(Call("handle_block", Layouter,
                        [id |-> Id, block |-> block]), FALSE)
        /\ Handled("block", block)

Place ==
    /\ More
    /\ \E item \in PlaceChoices(Id) :
        /\ Becomes(Call("handle_place", Layouter, [item |-> item]), FALSE)
        /\ Handled("place", item)

Flush ==
    /\ More
    /\ Becomes(Call("handle_flush", Layouter, <<>>), FALSE)
    /\ Handled("flush", <<>>)

\* layout: the loop over the children is over and finish is called.
End ==
    /\ pc = "layout"
    /\ Becomes(Call("finish", Layouter, <<>>), TRUE)
    /\ op' = [kind |-> "finish", arg |-> <<>>]
    /\ prev' = [Layouter EXCEPT !.finished = Len(@), !.log = Len(@),
                                 !.emitted = Len(@), !.entries = Len(@),
                                 !.calls = Len(@), !.floats = Len(@)]
    /\ UNCHANGED nchild

Next == Tag \/ V \/ Colbreak \/ Par \/ Block \/ Place \/ Flush \/ End

Spec == Init /\ [][Next]_vars

(* ----------------------- a longer flow, taller regions ----------------- *)

\* A root flow over a region that holds a block with its footnote and a line
\* with the first row of its footnote's entry, then a region twice as tall
\* as the regions above, then regions of height MaxRegion.
DeepInit ==
    /\ \E second \in {2 * MaxRegion, 2 * MaxRegion + 1} :
         FlowStarts(New([size |-> MaxRegion + 2, full |-> MaxRegion + 2,
                         backlog |-> << second >>, last |-> MaxRegion,
                         width |-> MaxRegion, root |-> TRUE],
                        [x |-> FALSE, y |-> FALSE]), "layout")
    /\ NoDocument
    /\ NoColumns

\* The next of up to 3 * MaxChildren children: a block with a footnote, a
\* float of height MaxH + 1 or of height 1, a paragraph of one line whose
\* footnote has an entry that breaks and holds a footnote, or a flush while
\* floats are queued.
DeepChild ==
    /\ pc = "layout"
    /\ nchild < 3 * MaxChildren
    /\ \/ LET block == BlockOf(1, FALSE, FALSE, FALSE, NoteA(Id))
          IN /\ Becomes(Call("handle_block", Layouter,
                             [id |-> Id, block |-> block]), FALSE)
             /\ Handled("block", block)
       \/ \E h \in {1, MaxH + 1} :
            LET item == Placed(<< Id, 1 >>, h, <<>>, "auto", TRUE, 0)
            IN /\ Becomes(Call("handle_place", Layouter, [item |-> item]),
                          FALSE)
               /\ Handled("place", item)
       \/ LET par == ParOf(Id, 1, FALSE, FALSE, NoteC(Id))
          IN /\ Becomes(Call("handle_par", Layouter, [par |-> par]), FALSE)
             /\ Handled("par", par)
       \/ /\ pending_floats # <<>>
          /\ Becomes(Call("handle_flush", Layouter, <<>>), FALSE)
          /\ Handled("flush", <<>>)

DeepNext == DeepChild \/ End

DeepSpec == DeepInit /\ [][DeepNext]_vars

(* ------------------------------ document ------------------------------- *)

\* Largest number of page runs of a document.
MaxRuns == 2

\* Largest number of frames the layout of a page run produces.
MaxPages == 2

\* Parity::matches.
ParityMatches(p, number) ==
    IF p = "even" THEN number % 2 = 0 ELSE number % 2 = 1

\* Binding::swap.
BindingSwap(binding, number) ==
    IF binding = "left" THEN number % 2 = 0 ELSE number % 2 = 1

\* ManualPageCounter::visit: the counter updates tagged in the frame are
\* applied to the logical number.
Visit(counter, frame) ==
    CASE frame.update = "set" -> [counter EXCEPT !.logical = 1]
      [] frame.update = "step" -> [counter EXCEPT !.logical = @ + 1]
      [] OTHER -> counter

\* ManualPageCounter::step.
Step(counter) ==
    [physical |-> counter.physical + 1, logical |-> counter.logical + 1]

\* The frames a page run is laid out into: the first may hold a counter
\* update.
FrameChoices ==
    { [i \in 1..n |-> [kind |-> "soft", blank |-> FALSE,
                       update |-> IF i = 1 THEN u ELSE "none"]] :
      n \in 1..MaxPages, u \in {"none", "set", "step"} }

\* The margin styles of a page run: one-sided, or two-sided with the binding
\* set or left to the text direction.
SideChoices ==
    { [two_sided |-> FALSE, binding |-> "none", dir |-> "ltr"] }
    \cup { [two_sided |-> TRUE, binding |-> b, dir |-> "ltr"] :
           b \in {"left", "right"} }
    \cup { [two_sided |-> TRUE, binding |-> "none", dir |-> d] :
           d \in {"ltr", "rtl"} }

\* The marginal styles of a page: whether a numbering is set, the vertical
\* component of number_align, header and footer (left to auto, set to none or
\* set to content), whether a background and a foreground are set.
MarginalChoices ==
    [numbering : BOOLEAN, number_align : {"top", "bottom", "none"},
     header : {"auto", "none", "content"},
     footer : {"auto", "none", "content"},
     background : BOOLEAN, foreground : BOOLEAN]

\* The styles of a page that sets none of them.
NoMarginals ==
    [numbering |-> FALSE, number_align |-> "bottom", header |-> "auto",
     footer |-> "auto", background |-> FALSE, foreground |-> FALSE]

\* A root child: a page element, with what its layout yields (frames, or an
\* error), or another element.
Child(page, clear_to, sides, frames, fails) ==
    [page |-> page, clear_to |-> clear_to, two_sided |-> sides.two_sided,
     binding |-> sides.binding, dir |-> sides.dir, frames |-> frames,
     fails |-> fails, marginals |-> NoMarginals]

ChildChoices ==
    { Child(TRUE, c, s, f, FALSE) :
        c \in {"none", "even", "odd"}, s \in SideChoices, f \in FrameChoices }
    \cup { Child(p, "none",
                 [two_sided |-> FALSE, binding |-> "none", dir |-> "ltr"],
                 <<>>, p) : p \in BOOLEAN }

\* The margins of the i-th page run (each run has its own).
MarginOf(i) == [left |-> 10 * i + 1, right |-> 10 * i + 2]

\* The extend_to of the i-th child, were it the clear_to of the child itself.
ExtendToOwn(cs, i) ==
    IF cs[i].page THEN cs[i].clear_to ELSE "none"

\* The extend_to of the i-th child: the clear_to of the child after it.
ExtendTo(cs, i) ==
    IF i < Len(cs) /\ cs[i + 1].page THEN cs[i + 1].clear_to ELSE "none"

\* layout_page_run.
LayoutPageRun(child, i, extend_to) ==
    IF child.fails
    THEN [ok |-> FALSE, err |-> [msg |-> "layout failed", span |-> i]]
    ELSE [ok |-> TRUE, run |-> i, extend_to |-> extend_to,
          margin |-> MarginOf(i), two_sided |-> child.two_sided,
          binding |-> child.binding, dir |-> child.dir,
          frames |-> child.frames, marginals |-> child.marginals]

\* The closure handed to parallelize.
LayoutChild(cs, i) ==
    IF cs[i].page THEN LayoutPageRun(cs[i], i, ExtendTo(cs, i))
    ELSE [ok |-> FALSE, err |-> [msg |-> "expected page element", span |-> i]]

\* The parity test, were the frames of the run left out of the count.
PaddedAtStart(layout, counter) ==
    /\ layout.extend_to # "none"
    /\ ~ParityMatches(layout.extend_to, counter.physical)

\* finalize_page_run, "Align the child to the pagebreak's parity".
Padded(layout, counter) ==
    /\ layout.extend_to # "none"
    /\ ~ParityMatches(layout.extend_to,
                      counter.physical + Len(layout.frames))

\* finalize_page_run, the binding of the run.
BindingOf(layout) ==
    IF layout.binding # "none" THEN layout.binding
    ELSE IF layout.dir = "ltr" THEN "left" ELSE "right"

\* The margins of the page, were every run mirrored.
PageMarginMirrored(layout, counter) ==
    IF BindingSwap(BindingOf(layout), counter.physical)
    THEN [left |-> layout.margin.right, right |-> layout.margin.left]
    ELSE layout.margin

\* finalize_page_run, the margins of the page at the counter.
PageMargin(layout, counter) ==
    IF layout.two_sided /\ BindingSwap(BindingOf(layout), counter.physical)
    THEN [left |-> layout.margin.right, right |-> layout.margin.left]
    ELSE layout.margin

\* Smart::unwrap_or on a header or footer: the value set by the page (its
\* content, or none), the default when the style is left to auto.
SmartUnwrapOr(slot, content, default) ==
    IF slot = "auto" THEN default
    ELSE IF slot = "content" THEN content ELSE "none"

\* finalize_page_run, "Construct the numbering (for header or footer)".
NumberingMarginal(m) == IF m.numbering THEN "numbering" ELSE "none"

\* The header, were the numbering to win over a header set by the page.
HeaderOfNumberingFirst(m) ==
    IF m.number_align = "top" /\ m.numbering THEN "numbering"
    ELSE SmartUnwrapOr(m.header, "header", "none")

\* finalize_page_run, the header chosen.
HeaderOf(m) ==
    IF m.number_align = "top"
    THEN SmartUnwrapOr(m.header, "header", NumberingMarginal(m))
    ELSE SmartUnwrapOr(m.header, "header", "none")

\* finalize_page_run, the footer chosen.
FooterOf(m) ==
    IF m.number_align = "top"
    THEN SmartUnwrapOr(m.footer, "footer", "none")
    ELSE SmartUnwrapOr(m.footer, "footer", NumberingMarginal(m))

\* "Realize overlays", one marginal: nothing when it is None; header and
\* background are prepended to the frame, footer and foreground pushed.
Overlay(frame, slot, content) ==
    IF content = "none" THEN frame
    ELSE IF slot \in {"header", "background"}
    THEN << [slot |-> slot, content |-> content] >> \o frame
    ELSE Append(frame, [slot |-> slot, content |-> content])

\* "Realize overlays": for marginal in [header, footer, background,
\* foreground].  The frame is the sequence of what it holds.
RealizeOverlays(m) ==
    LET f0 == << [slot |-> "page", content |-> "frame"] >>
        f1 == Overlay(f0, "header", HeaderOf(m))
        f2 == Overlay(f1, "footer", FooterOf(m))
        f3 == Overlay(f2, "background",
                      IF m.background THEN "background" ELSE "none")
    IN Overlay(f3, "foreground",
               IF m.foreground THEN "foreground" ELSE "none")

\* One turn of "Post-process pages", were the number recorded before the
\* frame is visited.
FinalizePageUnvisited(layout, frame, counter) ==
    LET margin == PageMargin(layout, counter)
        visited == Visit(counter, frame)
    IN [page |-> [run |-> layout.run, kind |-> frame.kind,
                  blank |-> frame.blank, update |-> frame.update,
                  left |-> margin.left, right |-> margin.right,
                  physical |-> counter.physical,
                  overlays |-> RealizeOverlays(layout.marginals),
                  number |-> counter.logical],
        counter |-> Step(visited)]

\* finalize_page_run, one turn of "Post-process pages": the page made of the
\* frame and the counter after it.
FinalizePage(layout, frame, counter) ==
    LET margin == PageMargin(layout, counter)
        visited == Visit(counter, frame)
    IN [page |-> [run |-> layout.run, kind |-> frame.kind,
                  blank |-> frame.blank, update |-> frame.update,
                  left |-> margin.left, right |-> margin.right,
                  physical |-> counter.physical,
                  overlays |-> RealizeOverlays(layout.marginals),
                  number |-> visited.logical],
        counter |-> Step(visited)]

\* finalize_page_run, "Post-process pages": acc holds the pages and the
\* counter.
RECURSIVE PostProcess(_, _, _, _)
PostProcess(layout, frames, i, acc) ==
    IF i > Len(frames) THEN acc
    ELSE LET f == FinalizePage(layout, frames[i], acc.counter)
         IN PostProcess(layout, frames, i + 1,
                        [pages |-> Append(acc.pages, f.page),
                         counter |-> f.counter])

\* finalize_page_run: the pages of the run and the counter after it.
FinalizePageRun(layout, counter) ==
    LET frames == IF Padded(layout, counter)
                  THEN Append(layout.frames,
                              [kind |-> "hard", blank |-> TRUE,
                               update |-> "none"])
                  ELSE layout.frames
    IN PostProcess(layout, frames, 1, [pages |-> <<>>, counter |-> counter])

\* A document of one to MaxRuns root children is handed to layout_document.
DocInit ==
    /\ FlowStarts(New(CHOOSE rg \in RegionChoices : TRUE,
                      [x |-> FALSE, y |-> FALSE]), "idle")
    /\ \E n \in 1..MaxRuns : children \in [1..n -> ChildChoices]
    /\ layouts = [i \in 1..Len(children) |-> [ok |-> FALSE, pending |-> TRUE]]
    /\ completed = <<>>
    /\ page_counter = PageCounterNew
    /\ pages = <<>>
    /\ cursor = 0
    /\ returned = NotReturned
    /\ doc_pc = "parallelize"
    /\ NoColumns

\* The runs whose layout has not ended.
Pending == { i \in 1..Len(layouts) : "pending" \in DOMAIN layouts[i] }

\* engine.parallelize, were the results kept in the order the layouts end.
LayoutEndsUnordered ==
    /\ doc_pc = "parallelize"
    /\ \E i \in 1..Len(children) :
        /\ \A k \in 1..Len(completed) : completed[k] # i
        /\ layouts' = [layouts EXCEPT ![Len(completed) + 1] =
                                          LayoutChild(children, i)]
        /\ completed' = Append(completed, i)
    /\ UNCHANGED << children, page_counter, pages, cursor, returned, doc_pc >>
    /\ UNCHANGED << flowvars, colvars >>

\* engine.parallelize: the layout of some page run ends; its result takes
\* the place of its child.
LayoutEnds ==
    /\ doc_pc = "parallelize"
    /\ \E i \in Pending :
        /\ layouts' = [layouts EXCEPT ![i] = LayoutChild(children, i)]
        /\ completed' = Append(completed, i)
    /\ UNCHANGED << children, page_counter, pages, cursor, returned, doc_pc >>
    /\ UNCHANGED << flowvars, colvars >>

\* engine.parallelize returns: every layout has ended.  The page counter and
\* the pages are created.
Parallelized ==
    /\ doc_pc = "parallelize"
    /\ Pending = {}
    /\ page_counter' = PageCounterNew
    /\ pages' = <<>>
    /\ doc_pc' = "finalize"
    /\ UNCHANGED << children, layouts, completed, cursor, returned >>
    /\ UNCHANGED << flowvars, colvars >>

\* The loop over the results, were an error skipped.
FinalizeSkipping ==
    /\ doc_pc = "finalize"
    /\ cursor < Len(layouts)
    /\ LET result == layouts[cursor + 1]
       IN IF ~result.ok
          THEN /\ cursor' = cursor + 1
               /\ UNCHANGED << page_counter, pages, returned, doc_pc >>
          ELSE LET f == FinalizePageRun(result, page_counter)
               IN /\ pages' = pages \o f.pages
                  /\ page_counter' = f.counter
                  /\ cursor' = cursor + 1
                  /\ UNCHANGED << returned, doc_pc >>
    /\ UNCHANGED << children, layouts, completed >>
    /\ UNCHANGED << flowvars, colvars >>

\* for result in layouts: the next result is an error, which is returned, or
\* a layout, which is finalized.
Finalize ==
    /\ doc_pc = "finalize"
    /\ cursor < Len(layouts)
    /\ LET result == layouts[cursor + 1]
       IN IF ~result.ok
          THEN /\ returned' = [NotReturned EXCEPT !.err = result.err]
               /\ doc_pc' = "returned"
               /\ UNCHANGED << page_counter, pages, cursor >>
          ELSE LET f == FinalizePageRun(result, page_counter)
               IN /\ pages' = pages \o f.pages
                  /\ page_counter' = f.counter
                  /\ cursor' = cursor + 1
                  /\ UNCHANGED << returned, doc_pc >>
    /\ UNCHANGED << children, layouts, completed >>
    /\ UNCHANGED << flowvars, colvars >>

\* Ok(Document { pages, .. }).
Return ==
    /\ doc_pc = "finalize"
    /\ cursor = Len(layouts)
    /\ returned' = [NotReturned EXCEPT !.ok = TRUE, !.pages = pages]
    /\ doc_pc' = "returned"
    /\ UNCHANGED << children, layouts, completed, page_counter, pages, cursor >>
    /\ UNCHANGED << flowvars, colvars >>

DocNext == LayoutEnds \/ Parallelized \/ Finalize \/ Return

DocSpec == DocInit /\ [][DocNext]_vars

\* A document of one page run, of any marginal styles, is handed to
\* layout_document.
PageInit ==
    /\ FlowStarts(New(CHOOSE rg \in RegionChoices : TRUE,
                      [x |-> FALSE, y |-> FALSE]), "idle")
    /\ \E m \in MarginalChoices, n \in 1..MaxPages :
         children =
            << [Child(TRUE, "none",
                      [two_sided |-> FALSE, binding |-> "none",
                       dir |-> "ltr"],
                      [i \in 1..n |-> [kind |-> "soft", blank |-> FALSE,
                                       update |-> "none"]],
                      FALSE) EXCEPT !.marginals = m] >>
    /\ layouts = << [ok |-> FALSE, pending |-> TRUE] >>
    /\ completed = <<>>
    /\ page_counter = PageCounterNew
    /\ pages = <<>>
    /\ cursor = 0
    /\ returned = NotReturned
    /\ doc_pc = "parallelize"
    /\ NoColumns

PageSpec == PageInit /\ [][DocNext]_vars

(* ------------------------------- columns ------------------------------- *)

\* Largest number of columns.
MaxColumns == 3

\* Largest number of frames the pod layout produces.
MaxFrames == 4

\* Regions::iter, its first n sizes: the current region, the backlog, then
\* the last region over and over, if there is one.
RECURSIVE RegionsIter(_, _)
RegionsIter(rg, n) ==
    IF n = 0 THEN <<>>
    ELSE << rg.size >> \o
         (IF rg.backlog # <<>>
          THEN RegionsIter([rg EXCEPT !.size = Head(rg.backlog),
                                      !.backlog = Tail(rg.backlog)], n - 1)
          ELSE IF rg.last # NoneH
          THEN RegionsIter([rg EXCEPT !.size = rg.last], n - 1)
          ELSE <<>>)

\* The width of each column.
ColumnWidth(rg, count, gutter) == (rg.width - gutter * (count - 1)) \div count

\* The backlog of the pod: each height count times, less the first.
RECURSIVE Repeat(_, _)
Repeat(h, n) == IF n = 0 THEN <<>> ELSE << h >> \o Repeat(h, n - 1)

RECURSIVE FlatRepeat(_, _)
FlatRepeat(hs, n) ==
    IF hs = <<>> THEN <<>> ELSE Repeat(Head(hs), n) \o FlatRepeat(Tail(hs), n)

PodBacklog(rg, count) == Tail(FlatRepeat(<< rg.size >> \o rg.backlog, count))

\* "Create the pod regions".
Pod(rg, count, gutter) ==
    [rg EXCEPT !.width = ColumnWidth(rg, count, gutter),
               !.backlog = PodBacklog(rg, count),
               !.expand = [x |-> TRUE, y |-> rg.expand.y]]

\* The frames a flow lays out into the pod, of the pod's width (the pod
\* expands horizontally): one per region it commits; when the pod has more
\* than one region, finish may commit the last one a second time, for a
\* float that stayed queued.
PodFrames(pod) ==
    LET most == IF pod.last # NoneH THEN MaxFrames
                ELSE Min(MaxFrames,
                         1 + Len(pod.backlog)
                           + (IF pod.backlog # <<>> THEN 1 ELSE 0))
    IN UNION { [1..f -> { [id |-> 0, width |-> pod.width, height |-> h] :
                          h \in {1, 2} }] : f \in 1..most }

\* The frame with its place among the frames of the pod.
Numbered(frames) == [i \in 1..Len(frames) |-> [frames[i] EXCEPT !.id = i]]

\* The regions content is laid out into with columns.
ColumnRegions(count, gutter) ==
    { [size |-> MaxRegion - 2, full |-> MaxRegion - 2, backlog |-> b,
       last |-> l, width |-> w, expand |-> [x |-> TRUE, y |-> e],
       root |-> FALSE] :
      b \in { <<>>, << MaxRegion >> }, l \in { NoneH, MaxRegion },
      w \in { 2 * count + gutter * (count - 1), Inf }, e \in BOOLEAN }

\* The x position of a column: "if dir == Dir::LTR { cursor } else {
\* regions.size.x - cur - width }", were the width left out.
ColumnXFromEdge(dir, total, cur, width) ==
    IF dir = "ltr" THEN cur ELSE total - cur

\* The x position of a column.
ColumnX(dir, total, cur, width) ==
    IF dir = "ltr" THEN cur ELSE total - cur - width

\* "for _ in 0..count": the columns of one output frame.  The result is the
\* output and the frames left.
RECURSIVE FillColumns(_, _, _, _, _)
FillColumns(c, n, frames, cur, output) ==
    IF n = 0 \/ frames = <<>> THEN [output |-> output, frames |-> frames]
    ELSE LET frame == Head(frames)
             x == ColumnX(c.dir, c.regions.width, cur, frame.width)
             grown == IF c.regions.expand.y THEN output
                      ELSE [output EXCEPT !.height = Max(@, frame.height)]
         IN FillColumns(c, n - 1, Tail(frames),
                        cur + frame.width + c.gutter,
                        [grown EXCEPT !.items =
                            Append(@, [x |-> x, frame |-> frame])])

\* "Stitch together the column for each region".
RECURSIVE StitchRegions(_, _, _, _)
StitchRegions(c, heights, frames, outputs) ==
    IF heights = <<>> THEN outputs
    ELSE LET height == IF c.regions.expand.y THEN Head(heights) ELSE 0
             f == FillColumns(c, c.count, frames, 0,
                              [kind |-> "hard", width |-> c.regions.width,
                               height |-> height, items |-> <<>>])
         IN StitchRegions(c, Tail(heights), f.frames,
                          Append(outputs, f.output))

\* The frames of the pod as layout_fragment returns them, when the width is
\* infinite.
Unstitched(frames) ==
    [i \in 1..Len(frames) |->
        [kind |-> "soft", width |-> frames[i].width,
         height |-> frames[i].height,
         items |-> << [x |-> 0, frame |-> frames[i]] >>]]

\* layout_fragment_with_columns, given the frames of the layout.
LayoutFragmentWithColumns(c) ==
    IF ~IsFinite(c.regions.width) THEN Unstitched(c.frames)
    ELSE LET total_regions == (Len(c.frames) + c.count - 1) \div c.count
         IN StitchRegions(c, RegionsIter(c.regions, total_regions),
                          c.frames, <<>>)

\* Content is laid out in 1..MaxColumns columns, in regions of a width that
\* the columns and gutters divide, or of infinite width.
ColInit ==
    /\ FlowStarts(New(CHOOSE rg \in RegionChoices : TRUE,
                      [x |-> FALSE, y |-> FALSE]), "idle")
    /\ NoDocument
    /\ \E count \in 1..MaxColumns, gutter \in {0, 1}, dir \in {"ltr", "rtl"} :
         \E rg \in ColumnRegions(count, gutter) :
           \E frames \in PodFrames(IF IsFinite(rg.width)
                                   THEN Pod(rg, count, gutter) ELSE rg) :
             columns = [regions |-> rg, count |-> count, gutter |-> gutter,
                        dir |-> dir, frames |-> Numbered(frames)]
    /\ fragment = <<>>
    /\ col_pc = "call"

\* layout_fragment_with_columns returns.
Stitch ==
    /\ col_pc = "call"
    /\ fragment' = LayoutFragmentWithColumns(columns)
    /\ col_pc' = "returned"
    /\ UNCHANGED << columns, flowvars, docvars >>

ColNext == Stitch

ColSpec == ColInit /\ [][ColNext]_vars

(* -------------------------------- claims ------------------------------- *)

\* The regions committed so far.
Committed == 1..Len(log)

\* C1: every frame committed for a region that is not the last holds items
\* whose heights (spacing, in-flow frames, footnote area, float bands) sum to
\* at most the region's initial height.
C1_NotOverfull ==
    \A i \in Committed : ~log[i].in_last => log[i].used <= log[i].initial

RECURSIVE InFlowIds(_)
InFlowIds(its) ==
    IF its = <<>> THEN <<>>
    ELSE LET it == IF "item" \in DOMAIN Head(its) THEN Head(its).item
                   ELSE Head(its)
         IN (IF it.k = "frame" /\ ~IsOutOfFlow(it) THEN << it.id >> ELSE <<>>)
            \o InFlowIds(Tail(its))

\* The in-flow frames of the emitted frames, in the order of emission.
RECURSIVE OutputIds(_)
OutputIds(frames) ==
    IF frames = <<>> THEN <<>>
    ELSE InFlowIds(Head(frames).items) \o OutputIds(Tail(frames))

\* The in-flow frames among the frames the children produced, in source
\* order.
RECURSIVE InFlowEmitted(_)
InFlowEmitted(es) ==
    IF es = <<>> THEN <<>>
    ELSE (IF Head(es).in_flow THEN << Head(es).id >> ELSE <<>>)
         \o InFlowEmitted(Tail(es))

\* The index of the emitted frame that holds the frame `id`; 0 for none.
RegionOf(id) ==
    LET found == { i \in 1..Len(finished) :
                     \E j \in 1..Len(finished[i].items) :
                         /\ finished[i].items[j].item.k = "frame"
                         /\ finished[i].items[j].item.id = id }
    IN IF found = {} THEN 0 ELSE CHOOSE i \in found : \A j \in found : i <= j

\* C3: when layout returns, the in-flow frames of the output are those the
\* children produced, each once and in source order.
C3_SourceOrder == pc = "done" => OutputIds(finished) = InFlowEmitted(emitted)

\* C3, its case: layout has returned, and a sticky frame was carried over to
\* the region of the paragraph that follows it.
C3_Witness ==
    /\ pc = "done"
    /\ op.kind = "finish"
    /\ Len(emitted) = 2
    /\ RegionOf(emitted[1].id) = 2
    /\ RegionOf(emitted[2].id) = 2
    /\ \E j \in 1..Len(finished[2].items) :
          /\ finished[2].items[j].item.k = "frame"
          /\ finished[2].items[j].item.id = emitted[1].id
          /\ finished[2].items[j].item.sticky
    /\ OutputIds(finished) = << emitted[1].id, emitted[2].id >>

\* The in-flow Frame items of an emitted frame, in order.
RECURSIVE InFlowFrames(_)
InFlowFrames(its) ==
    IF its = <<>> THEN <<>>
    ELSE (IF Head(its).item.k = "frame" /\ ~IsOutOfFlow(Head(its).item)
          THEN << Head(its).item >> ELSE <<>>)
         \o InFlowFrames(Tail(its))

\* The emitted frame ends with a sticky frame.
EndsSticky(frame) ==
    LET fs == InFlowFrames(frame.items)
    IN fs # <<>> /\ Last(fs).sticky

\* C4: a region committed while a later region exists does not end with a
\* sticky frame.
C4_NoStickyEnd ==
    \A i \in Committed : log[i].more => ~EndsSticky(finished[i])

\* The footnote items of the emitted frame i that belong to a footnote (the
\* separator does not).
EntryItems(i) ==
    { finished[i].items[j].item :
        j \in { n \in 1..Len(finished[i].items) :
                  /\ finished[i].items[n].item.k = "footnote"
                  /\ Len(finished[i].items[n].item.id) = 2 } }

\* The emitted frame i holds an in-flow frame (a line or a block frame) that
\* refers to the footnote `id`.
RefersTo(i, id) ==
    \E j \in 1..Len(finished[i].items) :
        LET it == finished[i].items[j].item
        IN it.k = "frame" /\ ~IsOutOfFlow(it) /\ HasNote(it.notes, id)

\* C5 as stated: every footnote frame of a committed region has a reference
\* to its footnote in an in-flow frame of the same region.
C5_SameRegion ==
    \A i \in 1..Len(finished) : \A f \in EntryItems(i) : RefersTo(i, f.id)

\* C5, amended: every footnote frame of a footnote that a line or a block
\* frame refers to is committed in the region of that frame or in a later
\* one.
C5_NotBeforeReference ==
    \A i \in 1..Len(finished) : \A f \in EntryItems(i) :
        (\E e \in 1..Len(emitted) : HasNote(emitted[e].notes, f.id))
            => \E r \in 1..i : RefersTo(r, f.id)

\* C5, its case: a footnote entry committed in the region after the one of
\* the block frame that refers to it.
C5_Witness ==
    \E i \in 1..Len(finished) : \E f \in EntryItems(i) :
        /\ ~IsEmpty(f)
        /\ ~RefersTo(i, f.id)
        /\ i > 1 /\ RefersTo(i - 1, f.id)
        /\ \E j \in 1..Len(finished[i - 1].items) :
              LET it == finished[i - 1].items[j].item
              IN it.k = "frame" /\ ~it.movable /\ HasNote(it.notes, f.id)

\* The regions that hold a footnote item (an entry frame, empty or not) of a
\* footnote of child `child`; those that hold a frame of such an entry that
\* is not empty.
FootnoteRegions(child) ==
    { i \in 1..Len(finished) :
        \E j \in 1..Len(finished[i].items) :
            LET it == finished[i].items[j].item
            IN it.k = "footnote" /\ Len(it.id) = 2 /\ it.id[1] = child }
EntryRegions(child) ==
    { i \in 1..Len(finished) :
        \E j \in 1..Len(finished[i].items) :
            LET it == finished[i].items[j].item
            IN it.k = "footnote" /\ Len(it.id) = 2 /\ it.id[1] = child
               /\ ~IsEmpty(it) }

\* C6: a line whose footnotes did not fit in the rest of a region that is
\* not the last is in the next region with its footnote entries, and the
\* region it was taken out of holds neither the line nor a footnote item for
\* it.
C6_MovesWithFootnote ==
    pc = "done" =>
        \A m \in moved :
            /\ RegionOf(m.line) = m.from + 1
            /\ FootnoteRegions(m.line[1]) = { m.from + 1 }
            /\ EntryRegions(m.line[1]) = { m.from + 1 }

\* The three lines are all in the region after the one the paragraph was
\* met in.
AllInNext(r) == \A i \in 1..3 : RegionOf(r.lines[i]) = r.from + 1

\* C7 as stated: a paragraph of three lines with a widow cost, met with room
\* for two lines before a region with room for the three, has its three
\* lines in that next region.
C7_WidowOnly == pc = "done" => \A r \in tight : AllInNext(r)

\* C7, amended: so it is when the orphan cost is positive as well, the
\* middle line is not empty, no float is pending and no line carries a
\* footnote.
C7_ThreeLinesTogether ==
    pc = "done" =>
        \A r \in tight : (r.orphan /\ ~r.floats /\ ~r.notes) => AllInNext(r)

\* C7, its case: such a paragraph was moved whole.
C7_Witness ==
    /\ pc = "done"
    /\ \E r \in tight : r.orphan /\ ~r.floats /\ ~r.notes /\ AllInNext(r)

\* C8: a sticky frame that trails a region that is not the last, met by a
\* paragraph whose first line does not fit, is committed in the region of
\* that first line, which is not the region it was first put into.
C8_StickyWithFirstLine ==
    pc = "done" =>
        \A r \in stuck : /\ RegionOf(r.sticky) = RegionOf(r.line)
                         /\ RegionOf(r.sticky) > r.from

\* The floats docked so far, in the current region or a committed one, whose
\* vertical alignment was automatic.  `at` holds the remaining height and the
\* full height of the region when the float was docked; h includes the
\* clearance.
AutoFloats ==
    LET docked(it) == it.k = "placed" /\ it.float /\ it.at # <<>>
                      /\ it.at[3] = "auto"
    IN { items[i] : i \in { j \in 1..Len(items) : docked(items[j]) } }
       \cup UNION { { finished[i].items[j].item :
                       j \in { n \in 1..Len(finished[i].items) :
                                 docked(finished[i].items[n].item) } } :
                     i \in 1..Len(finished) }

\* Twice the distance from the top of the region to the midpoint of the
\* float at the insertion point, and twice that to the region's midpoint.
TwiceFloatMid(it) == 2 * (it.at[2] - it.at[1]) + it.h
TwiceRegionMid(it) == it.at[2]

\* C9 as stated: an automatic float is docked at End when its midpoint lies
\* above the region's midpoint, and at Start otherwise.
C9_FartherEdge ==
    \A it \in AutoFloats :
        it.y_align = (IF TwiceFloatMid(it) < TwiceRegionMid(it)
                      THEN "end" ELSE "start")

\* C9, amended: an automatic float is docked at End when its midpoint lies
\* at or below the region's midpoint, and at Start otherwise: at the closer
\* edge.
C9_CloserEdge ==
    \A it \in AutoFloats :
        it.y_align = (IF TwiceFloatMid(it) >= TwiceRegionMid(it)
                      THEN "end" ELSE "start")

\* C9, its case: a float docked at the top, and one whose midpoint is on the
\* region's midpoint docked at the bottom.
C9_Witness ==
    /\ \E it \in AutoFloats : it.y_align = "start"
    /\ \E it \in AutoFloats :
          it.y_align = "end" /\ TwiceFloatMid(it) = TwiceRegionMid(it)

\* The last child was a weak spacing.
WeakV == op.kind = "v" /\ op.arg.k = "abs" /\ op.arg.weak

\* The weak spacing was discarded; it was appended and took its height.
Discarded == items = prev.items /\ regions.size = prev.regions.size
Appended ==
    /\ items = Append(prev.items, op.arg)
    /\ regions.size = Sub(prev.regions.size, op.arg.h)

\* The items hold an in-flow frame.
AnyInFlowFrame(its) ==
    \E i \in 1..Len(its) : its[i].k = "frame" /\ ~IsOutOfFlow(its[i])

\* C10 as stated: a weak spacing is discarded exactly when no in-flow frame
\* precedes it in the region, and appended otherwise.
C10_NoInFlowFrame ==
    WeakV => IF AnyInFlowFrame(prev.items) THEN Appended /\ ~Discarded
             ELSE Discarded

\* C10, amended: a weak spacing is discarded exactly when no Frame item,
\* in-flow or not, precedes it in the region, and appended otherwise.
C10_NoFrame ==
    WeakV => IF AnyFrame(prev.items) THEN Appended /\ ~Discarded
             ELSE Discarded

\* C10, its case: a weak spacing appended after a frame that is out-of-flow.
C10_Witness ==
    /\ WeakV
    /\ AnyFrame(prev.items) /\ ~AnyInFlowFrame(prev.items)
    /\ Appended


\* The indices of the in-flow Frame items of `its`.
InFlowAt(its) ==
    { i \in 1..Len(its) : its[i].k = "frame" /\ ~IsOutOfFlow(its[i]) }

\* `its` without the weak spacers that come before its first in-flow frame
\* and those that come after its last one (all kept when it has none).
RECURSIVE StripFrom(_, _, _, _)
StripFrom(its, i, first, last) ==
    IF i > Len(its) THEN <<>>
    ELSE (IF its[i].k = "abs" /\ its[i].weak /\ (i < first \/ i > last)
          THEN <<>> ELSE << its[i] >>)
         \o StripFrom(its, i + 1, first, last)

StripWeak(its) ==
    LET at == InFlowAt(its)
    IN IF at = {} THEN its
       ELSE StripFrom(its, 1, CHOOSE i \in at : \A j \in at : i <= j,
                      CHOOSE i \in at : \A j \in at : i >= j)

\* The frame a commit of the current region with the items `its` emits: its
\* size and its children with their positions.
CommittedFrame(its, force) ==
    LET c == FullCommit([Layouter EXCEPT !.items = its], force)
    IN << c.err, c.finished >>

\* C11: the frame a commit of the current region emits is the one it would
\* emit with the weak spacers before the first in-flow frame and after the
\* last in-flow frame removed.
C11_WeakRemoval ==
    pc = "layout" =>
        \A force \in BOOLEAN :
            CommittedFrame(items, force) = CommittedFrame(StripWeak(items), force)


\* C12: a frame handed to handle_item in the last region is appended to the
\* region's items without any region being committed and without failure,
\* whatever its height.
C12_OversetKept ==
    \A i \in 1..Len(emitted) :
        emitted[i].in_last =>
            emitted[i].commits = 0 /\ emitted[i].kept /\ emitted[i].err = ""

\* The frame is a paragraph line of the root flow that carries footnotes: its
\* footnotes are handled while it is emitted.
NotesHandled(e) == root /\ e.movable /\ e.notes # <<>>

\* C12 (amended): a frame handed to handle_item in the last region is appended
\* to that region's items without failure, whatever its height, and no region
\* is committed unless the frame is a paragraph line of the root flow that
\* carries footnotes.
C12_OversetKeptButNotes ==
    \A i \in 1..Len(emitted) :
        emitted[i].in_last =>
            /\ emitted[i].kept /\ emitted[i].err = ""
            /\ emitted[i].commits = 0 \/ NotesHandled(emitted[i])

\* A frame higher than what remained of the last region was emitted into it.
C12_Overset ==
    /\ op.kind \in {"par", "block"} /\ pc = "layout"
    /\ Len(emitted) > 0 /\ Last(emitted).in_last
    /\ Len(finished) = Last(emitted).before
    /\ items # <<>> /\ Last(items).k = "frame"
    /\ Last(items).id = Last(emitted).id
    /\ Last(items).h > prev.regions.size
    /\ regions.size < 0


\* The flow expands along an axis on which its region is infinite.
InfiniteExpand ==
    \/ expand.x /\ ~IsFinite(regions.width)
    \/ expand.y /\ ~IsFinite(regions.size)

Bailed ==
    pc \in {"cannot expand into infinite width",
            "cannot expand into infinite height"}

\* C13: when the flow expands along an infinite axis, every commit fails and
\* appends no frame: no frame is ever finished and the flow never completes.
C13_EveryCommitFails ==
    InfiniteExpand => finished = <<>> /\ (pc = "layout" \/ Bailed)

\* C13 (amended): when the flow expands along an infinite axis, every commit
\* but the early return for items that are all out-of-flow fails and appends
\* no frame: the frames finished are those of the early return, and the flow
\* never completes.
C13_EveryFullCommitFails ==
    InfiniteExpand =>
        /\ \A i \in 1..Len(finished) : finished[i].fast
        /\ pc # "done"

\* A non-forced commit of in-flow items has failed.
C13_Failed ==
    /\ InfiniteExpand /\ Bailed
    /\ op.kind \in {"par", "block"}
    /\ \E i \in 1..Len(items) : ~IsOutOfFlow(items[i])


(* --------------------------- claims, document -------------------------- *)

\* The number of the page that follows the pages of the runs up to the i-th.
AfterRun(i) ==
    1 + Cardinality({ k \in 1..Len(pages) : pages[k].run <= i })

\* The blank pages appended to the i-th run.
Blanks(i) ==
    Cardinality({ k \in 1..Len(pages) : pages[k].run = i /\ pages[k].blank })

HasParity(number, p) ==
    (p = "even" => number % 2 = 0) /\ (p = "odd" => number % 2 = 1)

\* C14: once a run with extend_to = p is finalized, the number of the next
\* page has parity p; the run got at most one blank page, and none when
\* extend_to is absent or the parity matched without it.
C14_ParityPadding ==
    /\ doc_pc \in {"finalize", "returned"} =>
          page_counter.physical = AfterRun(cursor)
    /\ \A i \in 1..cursor :
          LET p == ExtendTo(children, i)
              unpadded == AfterRun(i - 1) + Len(children[i].frames)
          IN /\ HasParity(AfterRun(i), p)
             /\ Blanks(i) <= 1
             /\ (p = "none" \/ HasParity(unpadded, p)) => Blanks(i) = 0

\* C14, its case: a run that got a blank page as its last, for the odd page
\* the next run asked for.
C14_Witness ==
    /\ cursor = 2
    /\ ExtendTo(children, 1) # "none" /\ Blanks(1) = 1
    /\ pages[AfterRun(1) - 1].blank
    /\ children[2].clear_to = "odd" /\ AfterRun(1) % 2 = 1

\* The document of the example: two page runs that are laid out, the first
\* into one page, the second, with clear_to = p, into n pages.
TwoRuns(p, n) ==
    /\ doc_pc = "returned" /\ returned.ok
    /\ Len(children) = 2
    /\ Len(children[1].frames) = 1
    /\ children[2].clear_to = p
    /\ Len(children[2].frames) = n

\* The page carries the margins of the i-th run, as they are or mirrored.
MarginsOfRun(page, i) ==
    { page.left, page.right } = { MarginOf(i).left, MarginOf(i).right }

\* C15: two page runs, the first of one page, the second with clear_to =
\* Even: the document has three pages, the second a hard blank page with the
\* margins of the second run, and the third page has the number 3.
C15_BlankBeforeEven ==
    \A n \in 1..MaxPages :
        TwoRuns("even", n) =>
            /\ Len(returned.pages) = 3
            /\ returned.pages[2].blank /\ returned.pages[2].kind = "hard"
            /\ MarginsOfRun(returned.pages[2], 2)
            /\ returned.pages[3].number = 3

\* No frame of the document holds a counter update.
NoUpdates ==
    \A i \in 1..Len(children) :
        \A j \in 1..Len(children[i].frames) :
            children[i].frames[j].update = "none"

\* C15 (amended): two page runs of one page each and no counter updates.
\* With clear_to = Odd on the second, the document has three pages, the
\* second a hard blank page that belongs to the first run and has its
\* margins, and the third page has the number 3.  With clear_to = Even no
\* blank page is inserted and the document has two pages.
C15_BlankBeforeOdd ==
    /\ TwoRuns("odd", 1) /\ NoUpdates =>
          /\ Len(returned.pages) = 3
          /\ returned.pages[2].blank /\ returned.pages[2].kind = "hard"
          /\ returned.pages[2].run = 1
          /\ MarginsOfRun(returned.pages[2], 1)
          /\ returned.pages[3].number = 3
    /\ TwoRuns("even", 1) /\ NoUpdates =>
          /\ Len(returned.pages) = 2
          /\ \A k \in 1..2 : ~returned.pages[k].blank

\* C15, its case: the document with clear_to = Odd was laid out.
C15_Witness ==
    /\ TwoRuns("odd", 1) /\ NoUpdates
    /\ Len(returned.pages) = 3
    /\ returned.pages[2].blank

\* The margins of the page are those of its run the other way round.
Swapped(page) ==
    /\ page.left = MarginOf(page.run).right
    /\ page.right = MarginOf(page.run).left

Unswapped(page) ==
    /\ page.left = MarginOf(page.run).left
    /\ page.right = MarginOf(page.run).right

\* The binding of the run: the one set, or Left for LTR text and Right
\* otherwise.
RunBinding(c) ==
    CASE c.binding # "none" -> c.binding
      [] c.dir = "ltr" -> "left"
      [] OTHER -> "right"

\* C16: the margins of a page are swapped exactly when its run is two-sided
\* and the page is even and bound left, or odd and bound right; so in a
\* two-sided run the left margin of a page is the right margin of the next
\* and the other way round.
C16_Mirroring ==
    /\ \A k \in 1..Len(pages) :
          LET c == children[pages[k].run]
              swap == \/ RunBinding(c) = "left" /\ k % 2 = 0
                      \/ RunBinding(c) = "right" /\ k % 2 = 1
          IN IF c.two_sided /\ swap THEN Swapped(pages[k])
             ELSE Unswapped(pages[k])
    /\ \A k \in 1..(Len(pages) - 1) :
          pages[k].run = pages[k + 1].run /\ children[pages[k].run].two_sided
              => /\ pages[k].left = pages[k + 1].right
                 /\ pages[k].right = pages[k + 1].left

\* C16, its case: a two-sided run of two pages, bound right by its text
\* direction, the first page swapped.
C16_Witness ==
    /\ Len(pages) >= 2
    /\ pages[1].run = 1 /\ pages[2].run = 1
    /\ children[1].two_sided
    /\ children[1].binding = "none" /\ children[1].dir = "rtl"
    /\ Swapped(pages[1]) /\ Unswapped(pages[2])

\* The logical number after the counter update of a page.
Updated(update, logical) ==
    CASE update = "set" -> 1
      [] update = "step" -> logical + 1
      [] OTHER -> logical

\* C17: the k-th page is finalized while the physical counter is k; the
\* counter is stepped once per page; the number of a page is the logical
\* counter after the page's own updates and before the step; without
\* updates the k-th page has the number k.
C17_PageNumbers ==
    /\ doc_pc \in {"finalize", "returned"} =>
          page_counter.physical = Len(pages) + 1
    /\ \A k \in 1..Len(pages) :
          /\ pages[k].physical = k
          /\ pages[k].number =
                Updated(pages[k].update,
                        IF k = 1 THEN 1 ELSE pages[k - 1].number + 1)
          /\ (\A j \in 1..k : pages[j].update = "none") => pages[k].number = k
    /\ doc_pc \in {"finalize", "returned"} =>
          page_counter.logical =
              IF pages = <<>> THEN 1 ELSE pages[Len(pages)].number + 1

\* C17, its case: a blank page between two runs, and a counter update on
\* the page after it.
C17_Witness ==
    /\ Len(pages) = 3
    /\ pages[2].blank
    /\ pages[3].update = "step"
    /\ pages[3].number = 4

\* The document laid out one run after the other: the result after the
\* children from the i-th on, given the pages and the counter before them.
RECURSIVE InSourceOrder(_, _, _, _)
InSourceOrder(cs, i, ps, counter) ==
    IF i > Len(cs) THEN [NotReturned EXCEPT !.ok = TRUE, !.pages = ps]
    ELSE LET layout == LayoutChild(cs, i)
         IN IF ~layout.ok THEN [NotReturned EXCEPT !.err = layout.err]
            ELSE LET f == FinalizePageRun(layout, counter)
                 IN InSourceOrder(cs, i + 1, ps \o f.pages, f.counter)

\* C18: whatever the order in which the layouts of the runs end, the result
\* is the one of laying out and finalizing the runs one after the other in
\* source order, and the pages come in the order of their runs.
C18_SameResult ==
    /\ doc_pc = "returned" =>
          returned = InSourceOrder(children, 1, <<>>, PageCounterNew)
    /\ \A k \in 1..(Len(pages) - 1) : pages[k].run <= pages[k + 1].run
    /\ \A k \in 1..Len(pages) : pages[k].run <= cursor
    /\ cursor > 0 => Pending = {}

\* C18, its case: the layout of the second run ended before that of the
\* first, and the document was returned with pages of both.
C18_Witness ==
    /\ doc_pc = "returned" /\ returned.ok
    /\ completed = << 2, 1 >>
    /\ pages[1].run = 1
    /\ pages[Len(pages)].run = 2

\* The children that are no page element or whose layout fails.
Failing ==
    { i \in 1..Len(children) : ~children[i].page \/ children[i].fails }

FirstFailing == CHOOSE i \in Failing : \A j \in Failing : i <= j

\* C19: when a child is no page element or the layout of a run fails,
\* layout_document returns the error of the first such child in source order
\* and no document, and no run after it is finalized.
C19_FirstError ==
    Failing # {} =>
        /\ cursor < FirstFailing
        /\ \A k \in 1..Len(pages) : pages[k].run < FirstFailing
        /\ doc_pc = "returned" =>
              /\ ~returned.ok /\ returned.pages = <<>>
              /\ returned.err.span = FirstFailing
              /\ returned.err.msg =
                    IF children[FirstFailing].page THEN "layout failed"
                    ELSE "expected page element"
              /\ cursor = FirstFailing - 1

\* C19, its case: the first run was finalized, the second failed, and its
\* error was returned.
C19_Witness ==
    /\ doc_pc = "returned"
    /\ Failing = {2} /\ children[2].page
    /\ returned.err = [msg |-> "layout failed", span |-> 2]
    /\ cursor = 1 /\ pages # <<>>



\* Layout has returned one frame more than the regions it was given: a float
\* stayed queued across a commit of out-of-flow items and finish committed
\* the last region a second time for it.
FrameBeyondRegions ==
    /\ pc = "done" /\ regions.last = NoneH
    /\ Cardinality({ i \in 1..Len(log) : ~log[i].more }) = 2
    /\ \E i \in 1..Len(log) : log[i].fast

(* --------------------------- claims, columns --------------------------- *)

\* The ids of the pod frames an output frame holds, in order.
Held(output) == [k \in 1..Len(output.items) |-> output.items[k].frame.id]

\* C20: for a finite width and N columns, the F frames of the pod are
\* stitched N at a time into ceil(F/N) outputs: output j holds the frames
\* jN .. jN+N-1 in order (the last may hold fewer), none is dropped or comes
\* twice, and the k-th column sits at k*(w + gutter) for LTR and at
\* W - k*(w + gutter) - w for RTL.
C20_Stitched ==
    col_pc = "returned" /\ IsFinite(columns.regions.width) =>
        LET N == columns.count
            F == Len(columns.frames)
            W == columns.regions.width
            w == ColumnWidth(columns.regions, N, columns.gutter)
        IN /\ Len(fragment) * N >= F /\ (Len(fragment) - 1) * N < F
           /\ \A j \in 0..(Len(fragment) - 1) :
                 /\ Held(fragment[j + 1]) =
                       [k \in 1..Min(N, F - j * N) |-> j * N + k]
                 /\ \A k \in 0..(Len(fragment[j + 1].items) - 1) :
                       fragment[j + 1].items[k + 1].x =
                           IF columns.dir = "ltr"
                           THEN k * (w + columns.gutter)
                           ELSE W - k * (w + columns.gutter) - w

\* C20, its case: three frames in two columns with a gutter, right to left:
\* the second output holds one frame.
C20_Witness ==
    /\ col_pc = "returned" /\ IsFinite(columns.regions.width)
    /\ columns.count = 2 /\ columns.gutter = 1 /\ columns.dir = "rtl"
    /\ Len(columns.frames) = 3
    /\ Len(fragment) = 2
    /\ Held(fragment[1]) = << 1, 2 >> /\ Held(fragment[2]) = << 3 >>
    /\ fragment[1].items[2].x = 0


\* C20, the frames lost: three frames of the pod in two columns of a single
\* region; the output holds two of them.
C20_Dropped ==
    /\ col_pc = "returned" /\ IsFinite(columns.regions.width)
    /\ columns.count = 2 /\ columns.regions.backlog = <<>>
    /\ columns.regions.last = NoneH
    /\ Len(columns.frames) = 3
    /\ Len(fragment) = 1
    /\ Held(fragment[1]) = << 1, 2 >>


(* ------------------------- claims, page marginals ---------------------- *)

\* What the page holds in the slot: the contents of its overlays there.
InSlot(page, slot) ==
    { page.overlays[k].content :
        k \in { j \in 1..Len(page.overlays) : page.overlays[j].slot = slot } }

\* C21: the numbering is used in the header when number_align's vertical
\* component is Top and in the footer otherwise, only when the page sets no
\* header (footer) of its own, and never in both or in another slot; a
\* header or footer set by the page is what its slot holds.
C21_NumberingSlot ==
    \A i \in 1..Len(pages) :
        LET page == pages[i]
            m == children[page.run].marginals
            top == m.number_align = "top"
        IN /\ "numbering" \in InSlot(page, "header")
                <=> m.numbering /\ top /\ m.header = "auto"
           /\ "numbering" \in InSlot(page, "footer")
                <=> m.numbering /\ ~top /\ m.footer = "auto"
           /\ Cardinality({ k \in 1..Len(page.overlays) :
                              page.overlays[k].content = "numbering" }) <= 1
           /\ "numbering" \notin InSlot(page, "background")
                                    \cup InSlot(page, "foreground")
           /\ m.header = "content" => InSlot(page, "header") = {"header"}
           /\ m.footer = "content" => InSlot(page, "footer") = {"footer"}
           /\ m.header = "none" => InSlot(page, "header") = {}
           /\ m.footer = "none" => InSlot(page, "footer") = {}

\* C21, its case: a page with a numbering aligned to the top and a header of
\* its own, its footer left to auto: the header is the page's, and the
\* footer holds nothing.
C21_Witness ==
    /\ doc_pc = "returned" /\ returned.ok
    /\ \E i \in 1..Len(returned.pages) :
         LET page == returned.pages[i]
             m == children[page.run].marginals
         IN /\ m.numbering /\ m.number_align = "top"
            /\ m.header = "content" /\ m.footer = "auto"
            /\ InSlot(page, "header") = {"header"}
            /\ InSlot(page, "footer") = {}


(* ------------------- claims, handle_footnotes as called ---------------- *)

\* The calls of handle_footnotes that returned false.
RolledBack == { i \in 1..Len(calls) : calls[i].err = "" /\ ~calls[i].ok }

\* What the claim compares of a call: items, remaining height, the flag and
\* the caller's notes.
Restored(c) ==
    /\ c.after.items = c.before.items
    /\ c.after.size = c.before.size
    /\ c.after.has_footnotes = c.before.has_footnotes
    /\ c.after.notes = c.before.notes

\* C22: whenever handle_footnotes returns false, items, the remaining
\* height, has_footnotes and the caller's notes are what they were
\* immediately before the call.
C22_Restored == \A i \in RolledBack : Restored(calls[i])

\* C22, for the calls that committed no region before giving up.
C22_RestoredInRegion ==
    \A i \in RolledBack :
        calls[i].after.finished = calls[i].before.finished
            => Restored(calls[i])

\* C22, its case: a call that pushed the separator and an entry and then
\* gave up, within one region.
C22_Witness ==
    \E i \in RolledBack :
        /\ calls[i].after.finished = calls[i].before.finished
        /\ calls[i].after.entries > calls[i].before.entries
        /\ calls[i].before.items # <<>>
        /\ Restored(calls[i])


\* The calls of handle_footnotes that returned without an error.
Returned == { i \in 1..Len(calls) : calls[i].err = "" }

\* The call pushed a frame of an entry before it returned.
PlacedSome(c) == c.after.entries > c.before.entries

\* Every footnote of the caller's list that is no reference has the first
\* frame of its entry pushed within the call.
PlacedAll(c) ==
    \A n \in 1..Len(c.after.notes) :
        ~c.after.notes[n].ref =>
            \E e \in (c.before.entries + 1)..c.after.entries :
                entries[e].id = c.after.notes[n].id /\ entries[e].part = 1

\* C23: handle_footnotes returns false only when force is false and no
\* footnote of the call has been placed; otherwise it places every note and
\* returns true.
C23_FirstNoteOnly ==
    \A i \in Returned :
        LET c == calls[i]
        IN /\ ~c.ok => ~c.force /\ ~PlacedSome(c)
           /\ c.ok => PlacedAll(c)

\* C23, with the frames that may move: handle_footnotes returns false only
\* when force is false and either no footnote of the call has been placed or
\* movable is true; otherwise it places every note and returns true.
C23_FirstNoteOrMovable ==
    \A i \in Returned :
        LET c == calls[i]
        IN /\ ~c.ok => ~c.force /\ (c.movable \/ ~PlacedSome(c))
           /\ c.ok => PlacedAll(c)

\* C23, its case: a call for a frame that does not move, not forced, whose
\* second entry did not fit: it went on and returned true; and a call that
\* gave up on its first entry.
C23_Witness ==
    /\ \E i \in Returned :
         LET c == calls[i]
         IN /\ ~c.movable /\ ~c.force /\ c.ok
            /\ \E e \in (c.before.entries + 2)..c.after.entries :
                  entries[e].part = 1 /\ entries[e].empty
    /\ \E i \in Returned : ~calls[i].ok /\ ~PlacedSome(calls[i])


(* ----------------------- claims, the footnote flag --------------------- *)

\* The footnote items among `its`, in order.
Footnotes(its) == SelectSeq(its, LAMBDA it : it.k = "footnote")

IsSeparator(it) == it.k = "footnote" /\ it.id = << "separator" >>

\* C24: in every state of the layouter, has_footnotes implies that the items
\* of the region hold a footnote item and that the first of them is the
\* separator.
C24_SeparatorFirst ==
    pc \in {"layout", "done"} /\ has_footnotes =>
        /\ Footnotes(items) # <<>>
        /\ IsSeparator(Footnotes(items)[1])

\* C24, its case: the flag is set, and the items hold the separator before
\* the frame of an entry.
C24_Witness ==
    /\ pc = "layout" /\ has_footnotes
    /\ Len(Footnotes(items)) >= 2
    /\ IsSeparator(Footnotes(items)[1])
    /\ ~IsSeparator(Footnotes(items)[2])


\* C24, where handle_footnotes returns: the flag implies that the items hold
\* a footnote item, the first of them the separator.
C24_SeparatorFirstOnReturn ==
    \A i \in Returned :
        calls[i].after.has_footnotes =>
            /\ Footnotes(calls[i].after.items) # <<>>
            /\ IsSeparator(Footnotes(calls[i].after.items)[1])


(* ------------------- claims, the order of the entries ------------------ *)

\* The footnotes in depth-first order: each is followed by the footnotes of
\* its entry, then by the footnotes after it.
RECURSIVE DepthFirst(_)
DepthFirst(notes) ==
    IF notes = <<>> THEN <<>>
    ELSE (IF Head(notes).ref THEN <<>>
          ELSE << Head(notes).id >> \o DepthFirst(Head(notes).nested))
         \o DepthFirst(Tail(notes))

\* The entries placed within the call for the notes of its list, by their
\* first frames, in the order they were pushed.
PlacedOrder(c) ==
    LET ids == { c.after.notes[n].id : n \in 1..Len(c.after.notes) }
        pushed == SubSeq(entries, c.before.entries + 1, c.after.entries)
        firsts == SelectSeq(pushed, LAMBDA e : e.part = 1 /\ e.id \in ids)
    IN [k \in 1..Len(firsts) |-> firsts[k].id]

\* C25: within a call of handle_footnotes that returns true the entries are
\* placed depth-first in insertion order, the entries of the footnotes found
\* in an entry directly after it and before the notes known before, each
\* entry once.
C25_DepthFirst ==
    \A i \in Returned :
        calls[i].ok => PlacedOrder(calls[i]) = DepthFirst(calls[i].before.notes)

\* C25, its case: a call with two notes, the first with a footnote in its
\* entry, which is placed between the two.
C25_Witness ==
    \E i \in Returned :
        LET c == calls[i]
        IN /\ c.ok /\ Len(c.before.notes) = 2
           /\ c.before.notes[1].nested # <<>>
           /\ Len(PlacedOrder(c)) = 3
           /\ PlacedOrder(c)[2] = c.before.notes[1].nested[1].id
           /\ PlacedOrder(c)[3] = c.before.notes[2].id


(* ----------------------- claims, the early return ---------------------- *)

\* The commits that were not forced and found items, all out-of-flow.
OnlyOutOfFlow ==
    { i \in 1..Len(log) :
        /\ log[i].before # <<>> /\ ~log[i].force
        /\ log[i].before.items # <<>> /\ AllOutOfFlow(log[i].before.items) }

\* C26: a commit that is not forced, with items that are all out-of-flow,
\* appends one empty soft frame of the initial size and moves to the next
\* region; items, pending_floats, pending_tags and has_footnotes are left as
\* they were.
C26_Carried ==
    \A i \in OnlyOutOfFlow :
        LET b == log[i].before
            a == log[i].after
        IN /\ log[i].fast
           /\ a.finished = b.finished + 1
           /\ finished[i] = [size |-> b.initial, fast |-> TRUE, items |-> <<>>]
           /\ a.regions = RegionsNext(b.regions)
           /\ a.initial = a.regions.size
           /\ a.items = b.items
           /\ a.pending_floats = b.pending_floats
           /\ a.pending_tags = b.pending_tags
           /\ a.has_footnotes = b.has_footnotes

\* C26, its case: such a commit with a further region to move to, a float
\* queued and a tag pending.
C26_Witness ==
    \E i \in OnlyOutOfFlow :
        /\ log[i].fast /\ log[i].more
        /\ log[i].before.pending_floats # <<>>
        /\ log[i].after.items = log[i].before.items
        /\ log[i].after.regions # log[i].before.regions


(* ------------------------- claims, the migration ----------------------- *)

\* The commits made by finish_region_with_migration.
Migrations == { i \in 1..Len(log) : log[i].migration # <<>> }

IsSticky(it) == it.k = "frame" /\ it.sticky

\* The suffix of `its` from j on holds only sticky frames and absolute
\* spacings and begins with a sticky frame.
StickySuffix(its, j) ==
    /\ IsSticky(its[j])
    /\ \A k \in j..Len(its) : its[k].k = "abs" \/ IsSticky(its[k])

\* What was carried is the longest such suffix of what was found.
LongestSuffix(g) ==
    LET start == Len(g.found) - Len(g.carry) + 1
    IN /\ g.carry = SubSeq(g.found, start, Len(g.found))
       /\ g.carry # <<>> => StickySuffix(g.found, start)
       /\ \A j \in 1..(start - 1) : ~StickySuffix(g.found, j)

\* The ids of the frames, placed and footnote items of `its`, in order.
Ids(its) ==
    LET held == SelectSeq(its, LAMBDA it : it.k \in {"frame", "placed",
                                                     "footnote"})
    IN [k \in 1..Len(held) |-> held[k].id]

\* The items of the frames committed from region i to region j.
RECURSIVE CommittedItems(_, _)
CommittedItems(i, j) ==
    IF i > j THEN <<>>
    ELSE [k \in 1..Len(finished[i].items) |-> finished[i].items[k].item]
         \o CommittedItems(i + 1, j)

\* The carried frames are found again, in their order, in what the
\* migration leaves: the regions committed while they were fed back and the
\* items.
Replayed(i) ==
    LET g == log[i].migration[1]
        carried == Ids(g.carry)
        later == CommittedItems(i + 1, g.left.finished) \o g.left.items
        again == SelectSeq(later,
                           LAMBDA it : it.k = "frame" /\ \E k \in 1..Len(carried) :
                                                          carried[k] = it.id)
    IN Ids(again) = carried

\* The items found before the carried ones.
Rest(g) == SubSeq(g.found, 1, Len(g.found) - Len(g.carry))

\* The frames, placed and footnote items of the rest are in the frame of
\* region i.
RestCommitted(i) ==
    Ids(Rest(log[i].migration[1])) = Ids(CommittedItems(i, i))

\* C27: finish_region_with_migration carries over the longest suffix of
\* sticky frames and absolute spacings that begins with a sticky frame; every
\* item before it is committed in the old region, and the carried items are
\* fed into the new region in their order.
C27_RestCommitted ==
    \A i \in Migrations :
        /\ LongestSuffix(log[i].migration[1])
        /\ RestCommitted(i)
        /\ Replayed(i)

\* C27, with the early return: the items before the suffix are committed in
\* the old region unless they are all out-of-flow, and then they stay in
\* front of the carried items.
C27_RestCommittedOrCarried ==
    \A i \in Migrations :
        LET g == log[i].migration[1]
        IN /\ LongestSuffix(g)
           /\ IF Rest(g) # <<>> /\ AllOutOfFlow(Rest(g))
              THEN /\ log[i].fast
                   /\ log[i].after.items = Rest(g)
              ELSE RestCommitted(i)
           /\ Replayed(i)

\* C27, its case: a sticky frame behind a frame that is not sticky is carried
\* over, the other frame is committed.
C27_Witness ==
    \E i \in Migrations :
        LET g == log[i].migration[1]
        IN /\ g.carry # <<>> /\ Rest(g) # <<>> /\ ~AllOutOfFlow(Rest(g))
           /\ RestCommitted(i)
           /\ Ids(g.carry) # <<>> /\ Replayed(i)


(* ----------------------- claims, the placed items ---------------------- *)

\* The calls of handle_item with a placed item that returned without an
\* error: with a float, and with another placed item.
Floated ==
    { i \in 1..Len(floats) : floats[i].err = "" /\ floats[i].item.float }

NotFloated ==
    { i \in 1..Len(floats) : floats[i].err = "" /\ ~floats[i].item.float }

\* The condition of the claim: a float is queued in front, or the float
\* does not fit and a further region follows.
QueueCase(c) ==
    \/ c.before.pending_floats # <<>>
    \/ /\ ~Fits(c.before.regions.size, c.item.h + c.item.clearance)
       /\ ~InLast(c.before.regions)

\* The call appended the item to pending_floats and left the rest alone.
Queued(c) ==
    c.after = [c.before EXCEPT !.pending_floats = Append(@, c.item)]

\* The call appended the item to items, as the last one.
AppendedLast(c) ==
    /\ c.after.items # <<>>
    /\ Last(c.after.items).id = c.item.id
    /\ Last(c.after.items).k = "placed"
    /\ c.after.pending_floats = c.before.pending_floats

\* The call appended the item to the items of the region it found and took
\* `v` off the remaining height.
PlacedHere(c, v) ==
    /\ AppendedLast(c)
    /\ Front(c.after.items) = c.before.items
    /\ c.after.finished = c.before.finished
    /\ c.after.regions = [c.before.regions EXCEPT !.size = Sub(@, v)]

\* C28: a float is queued, with items and remaining height unchanged,
\* exactly when a float is queued already or it does not fit with its
\* clearance and the region is not the last; otherwise it is placed in the
\* current region and the remaining height decreases by height + clearance.
\* Another placed item is appended to items and leaves the height unchanged.
C28_PlacedOrQueued ==
    /\ \A i \in Floated :
           IF QueueCase(floats[i])
           THEN Queued(floats[i])
           ELSE PlacedHere(floats[i],
                           floats[i].item.h + floats[i].item.clearance)
    /\ \A i \in NotFloated : PlacedHere(floats[i], 0)

\* The float holds footnotes that handle_item handles.
WithNotes(c) == c.root /\ c.item.notes # <<>>

\* C28, with the footnotes of the float: in the root flow the footnotes of a
\* float that is placed are handled before it is appended, which takes more
\* off the remaining height or commits the region.
C28_PlacedOrQueuedWithNotes ==
    /\ \A i \in Floated :
           LET c == floats[i]
               v == c.item.h + c.item.clearance
           IN IF QueueCase(c) THEN Queued(c)
              ELSE IF ~WithNotes(c) THEN PlacedHere(c, v)
              ELSE /\ AppendedLast(c)
                   /\ c.after.finished = c.before.finished =>
                          /\ c.after.regions.size <= Sub(c.before.regions.size, v)
                          /\ SubSeq(c.after.items, 1, Len(c.before.items))
                                 = c.before.items
    /\ \A i \in NotFloated : PlacedHere(floats[i], 0)

\* C28, its cases: a float queued because it does not fit, one queued behind
\* another that would fit, one placed, and a placed item that does not float.
C28_Witness ==
    /\ \E i \in Floated :
           /\ floats[i].before.pending_floats = <<>>
           /\ Queued(floats[i])
    /\ \E i \in Floated :
           /\ Fits(floats[i].before.regions.size,
                   floats[i].item.h + floats[i].item.clearance)
           /\ Queued(floats[i])
    /\ \E i \in Floated :
           /\ floats[i].item.clearance > 0
           /\ PlacedHere(floats[i], floats[i].item.h + floats[i].item.clearance)
    /\ \E i \in NotFloated : PlacedHere(floats[i], 0)


(* ---------------------- claims, the order of floats -------------------- *)

\* The calls of handle_item that placed a float (an index of `floats`).
Placing == { i \in Floated : ~QueueCase(floats[i]) }

\* The child a float came with: the children are numbered in their order.
Encounter(item) == item.id[1]

\* The floats of `its` are in the order in which they were encountered.
InEncounterOrder(its) ==
    \A j, k \in 1..Len(its) :
        j < k => Encounter(its[j]) < Encounter(its[k])

C30_FlushReturns ==
    op.kind = "flush" =>
        /\ pc # "diverged"
        /\ pc \in {"layout", "done"} =>
               /\ pending_floats = <<>>
               /\ \A k \in 1..Len(prev.pending_floats) :
                      \E j \in Placing :
                          /\ j > prev.floats
                          /\ floats[j].item.id = prev.pending_floats[k].id

\* C30, where the items are not all out-of-flow: the flush returns with the
\* queued floats placed.
C30_FlushReturnsInFlow ==
    (op.kind = "flush" /\ ~(prev.items # <<>> /\ AllOutOfFlow(prev.items))) =>
        /\ pc # "diverged"
        /\ pc \in {"layout", "done"} =>
               /\ pending_floats = <<>>
               /\ \A k \in 1..Len(prev.pending_floats) :
                      \E j \in Placing :
                          /\ j > prev.floats
                          /\ floats[j].item.id = prev.pending_floats[k].id


(* ------------------- claims, the floats when layout returns ------------ *)

\* The floating placed children of the flow: the ids handed to handle_item
\* with a float.
FloatChildren ==
    { floats[i].item.id : i \in { j \in 1..Len(floats) : floats[j].item.float } }

\* The number of items of the emitted frames that hold the placed item `id`.
RECURSIVE TimesEmitted(_, _)
TimesEmitted(id, i) ==
    IF i = 0 THEN 0
    ELSE TimesEmitted(id, i - 1)
         + Cardinality({ k \in 1..Len(finished[i].items) :
                           /\ finished[i].items[k].item.k = "placed"
                           /\ finished[i].items[k].item.id = id })

\* C31: when layout returns, pending_floats is empty and every floating
\* placed child is in exactly one emitted frame, also when a float was still
\* queued at the end and does not fit the region after the final commit.
C31_FloatsEmitted ==
    pc = "done" =>
        /\ pending_floats = <<>>
        /\ \A id \in FloatChildren : TimesEmitted(id, Len(finished)) = 1

\* C31, for the flows whose last commit leaves no float queued: no float is
\* emitted twice.
C31_FloatsEmittedOnce ==
    pc = "done" =>
        \A id \in FloatChildren : TimesEmitted(id, Len(finished)) <= 1


(* ------------------------ claims, the column break --------------------- *)

\* The layouter as `prev` records it.
Reduced ==
    [Layouter EXCEPT !.finished = Len(@), !.log = Len(@), !.emitted = Len(@),
                     !.entries = Len(@), !.calls = Len(@), !.floats = Len(@)]

\* C32: a column break commits the region exactly once, forced, when the
\* backlog is not empty or a repeating last region exists, and one frame is
\* appended even when the region has no items; when no further region remains
\* it leaves the layouter unchanged.
C32_OneForcedCommit ==
    (op.kind = "colbreak" /\ pc = "layout") =>
        IF prev.regions.backlog # <<>> \/ prev.regions.last # NoneH
        THEN /\ Len(finished) = prev.finished + 1
             /\ Len(log) = prev.log + 1
             /\ Last(log).force /\ ~Last(log).fast
             /\ Last(log).before.items = prev.items
             /\ Last(log).before.regions = prev.regions
        ELSE Reduced = prev

\* A queued float holds footnotes that the flow handles when the float is
\* fed back.
QueuedWithNotes ==
    /\ prev.root
    /\ \E k \in 1..Len(prev.pending_floats) :
           prev.pending_floats[k].notes # <<>>

\* C32, with the floats fed back: the column break commits the region,
\* forced, and commits no other unless a queued float with footnotes is fed
\* back in the root flow.
C32_ForcedCommit ==
    (op.kind = "colbreak" /\ pc = "layout") =>
        IF prev.regions.backlog # <<>> \/ prev.regions.last # NoneH
        THEN /\ Len(finished) >= prev.finished + 1
             /\ Len(log) >= prev.log + 1
             /\ log[prev.log + 1].force /\ ~log[prev.log + 1].fast
             /\ log[prev.log + 1].before.items = prev.items
             /\ log[prev.log + 1].before.regions = prev.regions
             /\ \A i \in (prev.log + 2)..Len(log) : ~log[i].force
             /\ ~QueuedWithNotes =>
                    /\ Len(finished) = prev.finished + 1
                    /\ Len(log) = prev.log + 1
        ELSE Reduced = prev

\* C32, its case: a column break in a region without items, with a
\* repeating last region and nothing in the backlog, appends one frame.
C32_Witness ==
    /\ op.kind = "colbreak" /\ pc = "layout"
    /\ prev.regions.backlog = <<>> /\ prev.regions.last # NoneH
    /\ prev.items = <<>>
    /\ Len(finished) = prev.finished + 1
    /\ Last(log).force /\ Last(finished).items = <<>>


(* --------------------- claims, the size of the frame ------------------- *)

\* The full commits (an index of `log` and of `finished`).
FullCommits == { i \in 1..Len(log) : ~log[i].fast }

\* The sum of the fractional spacings among `its`.
RECURSIVE FrSum(_, _)
FrSum(its, i) ==
    IF i = 0 THEN 0
    ELSE FrSum(its, i - 1) + (IF its[i].k = "fr" THEN its[i].fr ELSE 0)

\* The region of commit i holds fractional spacing, or its has_footnotes
\* flag is set, and its initial height is finite.
FillsRegion(i) ==
    /\ \/ FrSum(log[i].before.items, Len(log[i].before.items)) > 0
       \/ log[i].has_footnotes
    /\ IsFinite(log[i].initial)

Lines == { k \in 1..Len(emitted) : emitted[k].line # <<>> }

\* The budget of the statement for line i (from 0) of `par`.
NeededFor(par, i) ==
    LET len == Len(par.lines)
        h(j) == par.lines[j + 1].h
        prevent_orphans == par.orphan /\ len >= 2 /\ ~IsEmpty(par.lines[2])
        prevent_widows == par.widow /\ len >= 2 /\ ~IsEmpty(par.lines[len - 1])
        prevent_all == len = 3 /\ prevent_orphans /\ prevent_widows
    IN IF prevent_all /\ i = 0
       THEN h(0) + par.leading + h(1) + par.leading + h(len - 1)
       ELSE IF prevent_orphans /\ i = 0
       THEN h(0) + par.leading + h(1)
       ELSE IF prevent_widows /\ i >= 2 /\ i + 2 = len
       THEN h(len - 2) + par.leading + h(len - 1)
       ELSE h(i)

\* The region is not the last, the budget does not fit what remains of it
\* and fits the region that follows.
RoomInNext(rg, needed) ==
    /\ ~InLast(rg)
    /\ ~Fits(rg.size, needed)
    /\ Len(RegionsIter(rg, 2)) = 2
    /\ Fits(RegionsIter(rg, 2)[2], needed)

\* C34: before a paragraph line is handed over the region is committed
\* exactly when it is not the last, the budget of the line does not fit the
\* remaining height and fits the height of the next region; otherwise the
\* line is handed over in the region as it was found.
C34_CommitForLine ==
    \A k \in Lines :
        LET l == emitted[k].line[1]
        IN IF RoomInNext(l.found.regions, NeededFor(l.par, l.i - 1))
           THEN l.left.finished > l.found.finished
           ELSE /\ l.left.finished = l.found.finished
                /\ l.left.regions = l.found.regions
                /\ l.left.items = l.found.items

\* C34, its case: the region is committed before the line before the last,
\* for which the last two lines have no room.
C34_Witness ==
    \E k \in Lines :
        LET l == emitted[k].line[1]
        IN /\ l.i >= 3 /\ l.i + 1 = Len(l.par.lines)
           /\ Fits(l.found.regions.size, l.par.lines[l.i].h)
           /\ RoomInNext(l.found.regions, NeededFor(l.par, l.i - 1))
           /\ l.left.finished = l.found.finished + 1


(* ---------------------- claims, the end of the flow -------------------- *)

\* What layout returns: at least one frame, no items left, and with
\* expand.y a frame for every region of the backlog the flow started with.
ReturnsFrames ==
    pc = "done" =>
        /\ Len(finished) >= 1
        /\ items = <<>>
        /\ expand.y =>
               /\ regions.backlog = <<>>
               /\ Len(finished) >= Len(log[1].before.regions.backlog) + 1

\* C35: the layout of a finite flow over regions with a finite backlog
\* terminates; it emits at least one frame, returns with items empty, and
\* with expand.y every region of the backlog has received a frame.
C35_Terminates == pc # "diverged" /\ ReturnsFrames

\* C35, for every child but a flush: the handler returns, and layout returns
\* the frames as stated.
C35_TerminatesButFlush == (op.kind # "flush" => pc # "diverged") /\ ReturnsFrames


(* ------------------------ claims, a single region ---------------------- *)

\* The flow started with a single region: nothing in the backlog and no
\* repeating last region.
SingleRegion ==
    /\ log # <<>>
    /\ log[1].before.regions.backlog = <<>>
    /\ log[1].before.regions.last = NoneH

\* C36: over a single region the flow layouter emits exactly one frame for
\* any flow that lays out without error.
C36_OneFrame == (pc = "done" /\ SingleRegion) => Len(finished) = 1

\* C36, its case: a root flow in a single region, whose footnote entries
\* have no room beside the content, has returned one frame.
C36_Witness ==
    /\ pc = "done" /\ SingleRegion
    /\ entries # <<>>
    /\ log[1].used > log[1].initial
    /\ Len(finished) = 1


(* ----------------------------- claims, tags ---------------------------- *)

\* The tags carried by the items `its`, in order.
RECURSIVE TagsOf(_)
TagsOf(its) ==
    IF its = <<>> THEN <<>>
    ELSE (IF Head(its).k = "tag" THEN << Head(its).id >> ELSE Head(its).tags)
         \o TagsOf(Tail(its))

\* The tags in the emitted frames up to frame i, in order.
RECURSIVE TagsEmitted(_)
TagsEmitted(i) ==
    IF i = 0 THEN <<>>
    ELSE TagsEmitted(i - 1)
         \o TagsOf([k \in 1..Len(finished[i].items) |-> finished[i].items[k].item])

\* The tags in the output.
TagsInOutput == TagsEmitted(Len(finished))

\* Every tag the layouter holds: in the output, on the items, or pending.
AllTags == TagsInOutput \o TagsOf(items) \o pending_tags

Range(seq) == { seq[k] : k \in 1..Len(seq) }

NoTwice(seq) == \A j, k \in 1..Len(seq) : j # k => seq[j] # seq[k]

\* The items in the output or on the items.
ItemsHeld ==
    UNION { { finished[i].items[k].item : k \in 1..Len(finished[i].items) } :
            i \in 1..Len(finished) }
    \cup Range(items)

\* The frames with content among them.
FramesWithContent == { it \in ItemsHeld : it.k = "frame" /\ ~IsEmpty(it) }

\* The tags of a frame are in queue order and came before the frame, and no
\* frame with content of a paragraph or block lies between a tag and the
\* frame it is attached to.
OnNextFrame ==
    /\ \A it \in ItemsHeld : it.tags # <<>> => it \in FramesWithContent
    /\ \A f \in FramesWithContent :
        /\ \A j, k \in 1..Len(f.tags) : j < k => f.tags[j] < f.tags[k]
        /\ \A k \in 1..Len(f.tags) :
               /\ f.tags[k] < f.id[1]
               /\ \A g \in FramesWithContent :
                      ~(\/ f.tags[k] < g.id[1] /\ g.id[1] < f.id[1]
                        \/ g.id[1] = f.id[1] /\ g.id[2] < f.id[2])

\* C37: every Tag child is in the output exactly once: a step keeps the tags
\* the layouter holds, a Tag child adds its tag to them, no tag is held
\* twice, a tag goes from pending_tags to the next frame with content in
\* queue order or to the frame of a forced commit, and when layout returns
\* all of them are in the emitted frames and pending_tags is empty.
C37_TagsOnce ==
    [][pc' \in {"layout", "done"} =>
          /\ Range(AllTags') =
                 Range(AllTags)
                 \cup (IF op'.kind = "tag" /\ nchild' = nchild + 1
                       THEN {op'.arg} ELSE {})
          /\ NoTwice(AllTags')
          /\ OnNextFrame'
          /\ pc' = "done" =>
                 /\ pending_tags' = <<>>
                 /\ Range(TagsInOutput') = Range(AllTags')]_vars

\* C37, its cases: layout has returned with a tag on a frame with content
\* and a tag in the frame of a forced commit.
C37_Witness ==
    /\ pc = "done"
    /\ \E f \in FramesWithContent : f.tags # <<>>
    /\ \E i \in 1..Len(finished) :
           \E k \in 1..Len(finished[i].items) : finished[i].items[k].item.k = "tag"


(* ------------------------ claims, the root flag ------------------------ *)

\* The flow called handle_footnotes for the footnotes of the block handled
\* last, and pushed the entry of the first of them.
NotesCollected ==
    /\ \E i \in (prev.calls + 1)..Len(calls) :
           /\ ~calls[i].movable
           /\ calls[i].before.notes = op.arg.notes
    /\ \E j \in (prev.entries + 1)..Len(entries) :
           entries[j].id = op.arg.notes[1].id

\* C38: handling a block leaves the root flag as it was and regions.root
\* false; for a rootable block in a root flow the flow handles no footnotes
\* and adds no footnote items, for a block that is not rootable the flow
\* collects the footnotes of its frames.
C38_RootRestored ==
    (op.kind = "block" /\ pc = "layout") =>
        /\ root = prev.root
        /\ ~regions.root
        /\ (prev.root /\ op.arg.rootable) =>
               /\ Len(calls) = prev.calls
               /\ Len(entries) = prev.entries
               /\ Len(Footnotes(items)) <= Len(Footnotes(prev.items))
        /\ (prev.root /\ ~op.arg.rootable /\ op.arg.notes # <<>>) =>
               NotesCollected

\* C38, one case: a rootable block with a footnote was handled in a root
\* flow, which is root again and has no footnote items.
C38_Witness ==
    /\ op.kind = "block" /\ pc = "layout"
    /\ prev.root /\ root
    /\ op.arg.rootable /\ op.arg.notes # <<>>
    /\ Footnotes(items) = <<>>
    /\ \E k \in 1..Len(items) : items[k].notes = op.arg.notes

=============================================================================
